---- MODULE Spec2Model ----
(***************************************************************************)
(* HomebrewLite: reverse proxy router with TLS hot-reload                  *)
(* (hbLiteProxy.js), the recipe store with its authorization, query and    *)
(* modify (jxjDB.js, SafeData.js, Extensions2JS.js), its data middleware   *)
(* and the process wide exception handling (Cleanup.js, Scribe.js).        *)
(*                                                                         *)
(* JavaScript strings are sequences of one-character strings, so that      *)
(* split, indexOf, substr and the regular expressions of the source are    *)
(* computed the way the source computes them.                              *)
(***************************************************************************)
EXTENDS Integers, Sequences, FiniteSets, TLC

(***************************************************************************)
(* Bounds of the model                                                     *)
(***************************************************************************)
MaxHostLen == 3      \* longest Host header enumerated for the look-up
MaxReqs == 2         \* requests handled by the router in one behaviour
MaxReloads == 1      \* loadSecrets() reloads after the initial load
MaxVersion == 2      \* key/cert pairs issued by the renewal process
MaxHandshakes == 2   \* handshakes counted between two reloads
MaxStrLen == 3       \* longest comma delimited group string
MaxItems == 3        \* most records of a collection at load time
MaxLimit == 2        \* largest |limit| a recipe declares
MaxBatch == 2        \* most entries of the data of one modify() call

VARIABLES
  lookup,     \* one route look-up: [T, header, st, route]
  cfg,        \* proxy configuration: [routes, verbose, target, secure]
  stats,      \* scribe.Stat counters of the proxy tag and the blacklist
  reqs,       \* requests seen by the proxy, in order of arrival
  last,       \* inputs of the latest request and the counters before it
  proc,       \* the node process: [state, code]
  listening,  \* this.server.listen() has been called
  disk,       \* content of the key and cert files: [key, cert]
  secure,     \* this.secure: [secrets, changed, context]
  loads,      \* loadSecrets() calls: 0 is the initial load
  hs,         \* TLS handshakes: latest outcome and counts since the loads
  ac,         \* one authorization check and its inputs
  db,         \* the document store: this.db of a jxjDB instance
  call,       \* the latest call on the store, its inputs and what it returned
  timex,      \* the delayed save is scheduled (this.timex)
  fs,         \* the files the stores and the file recipes read and write
  ev,         \* the event loop: clock, pending timers, reads and writes
  site        \* the site context of a request: rqst.hb, scribe mask, secrets

vars ==
  <<lookup, cfg, stats, reqs, last, proc, listening, disk, secure, loads, hs, ac, db, call,
    timex, fs, ev, site>>

(***************************************************************************)
(* JavaScript values and string primitives                                 *)
(***************************************************************************)
\* undefined where a string is expected: no string of characters equals it
Undefined == <<"undefined">>

\* all strings over alphabet A of length at most n
RECURSIVE StringsUpTo(_, _)
StringsUpTo(A, n) ==
  IF n = 0 THEN {<<>>}
  ELSE LET S == StringsUpTo(A, n - 1)
       IN  S \cup {Append(s, c) : s \in {t \in S : Len(t) = n - 1}, c \in A}

\* String.prototype.indexOf(c): 0-based index of the first c, or -1
indexOf(s, c) ==
  IF \E i \in 1..Len(s) : s[i] = c
  THEN (CHOOSE i \in 1..Len(s) : s[i] = c /\ \A j \in 1..(i - 1) : s[j] # c) - 1
  ELSE -1

\* String.prototype.substr(from), from >= 0
substr(s, from) == SubSeq(s, from + 1, Len(s))

\* String.prototype.split(c): the parts of s between the occurrences of c
RECURSIVE split(_, _)
split(s, c) ==
  LET i == indexOf(s, c)
  IN  IF i = -1 THEN <<s>>
      ELSE <<SubSeq(s, 1, i)>> \o split(substr(s, i + 1), c)

(***************************************************************************)
(* Proxy route table and its look-up (proxyRouter)                         *)
(***************************************************************************)
\* undefined where a route {host, port} is expected
NoRoute == [host |-> "undefined", port |-> 0]
TargetX == [host |-> "hostX", port |-> 8001]
TargetY == [host |-> "hostY", port |-> 8002]
Targets == {TargetX, TargetY}

\* cfg.routes[k]: property look-up on the route object
Lookup(T, k) == IF k \in DOMAIN T THEN T[k] ELSE NoRoute

\* rqst.headers.host.split(':')[0]||''
HostOf(header) == split(header, ":")[1]

\* self.cfg.routes[host] || self.cfg.routes['*.' + host.substr(host.indexOf('.')+1)]
WildcardKey(host) == <<"*", ".">> \o substr(host, indexOf(host, ".") + 1)
ResolveRoute(T, host) ==
  IF Lookup(T, host) # NoRoute THEN Lookup(T, host)
  ELSE Lookup(T, WildcardKey(host))

\* the string "a.b": parts joined with '.'
RECURSIVE join(_)
join(parts) ==
  IF Len(parts) = 0 THEN <<>>
  ELSE IF Len(parts) = 1 THEN parts[1]
  ELSE parts[1] \o <<".">> \o join(Tail(parts))

(***************************************************************************)
(* Source address classification of the no-route branch (proxyRouter)      *)
(***************************************************************************)
Digits == {"0", "1", "2", "3", "4", "5", "6", "7", "8", "9"}
IsDigits(s) == Len(s) > 0 /\ \A i \in 1..Len(s) : s[i] \in Digits

\* rqst.headers['x-forwarded-for']||rqst.connection.remoteAddress||'?'
SourceIP(xff, remote) ==
  IF xff # Undefined /\ xff # <<>> THEN xff
  ELSE IF remote # Undefined /\ remote # <<>> THEN remote
  ELSE <<"?">>

\* /(?:192\.168|127\.\d+|10\.\d+|169\.254)\.\d+\.\d+$/ matched against the
\* text t taken as a whole (the pattern from its first character up to $)
PatternMatches(t) ==
  LET p == split(t, ".")
  IN  /\ Len(p) = 4
      /\ IsDigits(p[3])
      /\ IsDigits(p[4])
      /\ \/ p[1] = <<"1", "9", "2">> /\ p[2] = <<"1", "6", "8">>
         \/ p[1] = <<"1", "2", "7">> /\ IsDigits(p[2])
         \/ p[1] = <<"1", "0">> /\ IsDigits(p[2])
         \/ p[1] = <<"1", "6", "9">> /\ p[2] = <<"2", "5", "4">>

\* ip.match(...): the pattern has no ^, so it may start anywhere in ip
localIP(ip) == \E i \in 0..(Len(ip) - 1) : PatternMatches(substr(ip, i))

(***************************************************************************)
(* The node process: Cleanup.js and Scribe.fatal                           *)
(***************************************************************************)
Running == [state |-> "running", code |-> 0]

\* process.on('uncaughtException') -> cleanup.gracefulExit(99): the first
\* call schedules process.exit after cleanup.delay, later calls do nothing
uncaughtException(p) ==
  IF p.state = "running" THEN [state |-> "exiting", code |-> 99] ELSE p

\* Scribe.prototype.fatal: process.exit(100)
fatal(p) == [state |-> "exited", code |-> 100]

(***************************************************************************)
(* Idle values of the variables a specification does not use               *)
(***************************************************************************)
NoTarget == NoRoute
NoCert == [ver |-> 0, alg |-> "undefined"]
NoSecrets == [key |-> 0, cert |-> NoCert]
NoContext == NoSecrets
IdleLookup == [T |-> <<>>, header |-> <<>>, st |-> "idle", route |-> NoRoute]
IdleStats == [errors |-> 0, probes |-> 0, served |-> 0, blacklist |-> <<>>]
IdleLast == [kind |-> "none", header |-> Undefined, ip |-> <<>>, before |-> IdleStats]
IdleDisk == [key |-> 0, cert |-> NoCert]
IdleSecure == [secrets |-> NoSecrets, changed |-> FALSE, context |-> NoContext]
IdleHs == [last |-> "none", ctx |-> NoContext, sinceOk |-> 0, rebuilds |-> 0,
           sinceDone |-> 0, lastDone |-> "none", lastId |-> 0]
IdleAc == [st |-> "idle", allowed |-> [t |-> "undef", b |-> FALSE, v |-> <<>>],
           authA |-> [t |-> "undef", b |-> FALSE, v |-> <<>>],
           authB |-> [t |-> "undef", b |-> FALSE, v |-> <<>>],
           resA |-> FALSE, resB |-> FALSE]
IdleDb == [recipes |-> <<>>, items |-> <<>>]
IdleCall == [st |-> "idle"]
IdleFs == <<>>
IdleEv == [now |-> 0]
IdleSite == [tag |-> "none"]

(***************************************************************************)
(* Specification SpecResolve: the route look-up as a function              *)
(***************************************************************************)
HostAlphabet == {"a", "b", ".", "*", ":"}
Headers == StringsUpTo(HostAlphabet, MaxHostLen)
RouteKeys == {<<"a", ".", "a">>, <<"*", ".", "a">>, <<"a">>, <<"*", ".", "b">>}
RouteTables == UNION {[K -> Targets] : K \in SUBSET RouteKeys}

InitResolve ==
  /\ lookup \in [T : RouteTables, header : Headers, st : {"pending"}, route : {NoRoute}]
  /\ cfg = [routes |-> <<>>, verbose |-> FALSE, target |-> NoTarget, secure |-> FALSE]
  /\ stats = IdleStats /\ reqs = <<>> /\ last = IdleLast
  /\ proc = Running /\ listening = FALSE
  /\ disk = IdleDisk /\ secure = IdleSecure /\ loads = <<>> /\ hs = IdleHs
  /\ ac = IdleAc
  /\ db = IdleDb /\ call = IdleCall /\ timex = FALSE /\ fs = IdleFs /\ ev = IdleEv /\ site = IdleSite

\* lines 1-2 of proxyRouter applied to one header and one table
Resolve ==
  /\ lookup.st = "pending"
  /\ lookup' = [lookup EXCEPT !.st = "done",
                              !.route = ResolveRoute(lookup.T, HostOf(lookup.header))]
  /\ UNCHANGED <<cfg, stats, reqs, last, proc, listening, disk, secure, loads, hs, ac, db, call, timex, fs, ev, site>>

NextResolve == Resolve
SpecResolve == InitResolve /\ [][NextResolve]_vars

\* C1 as claimed: h with its first label removed
WithoutFirstLabel(h) == join(Tail(split(h, ".")))
ClaimedRoute(T, h) ==
  IF h \in DOMAIN T THEN T[h]
  ELSE IF <<"*", ".">> \o WithoutFirstLabel(h) \in DOMAIN T
       THEN T[<<"*", ".">> \o WithoutFirstLabel(h)]
       ELSE NoRoute

\* C1: every host h resolves to T[h] when h is a key of T, otherwise to
\* T['*.' + p] with p = h without its first label when that key exists,
\* otherwise to no route.
C1_Resolution ==
  lookup.st = "done" =>
    lookup.route = ClaimedRoute(lookup.T, HostOf(lookup.header))

(***************************************************************************)
(* Specification SpecRouter: requests through a listening proxy            *)
(***************************************************************************)
Count(S) == Cardinality(S)

\* scribe.Stat.inc(tag, key): (get) ? get + 1 : 1
StatInc(st, key) == [st EXCEPT ![key] = IF @ # 0 THEN @ + 1 ELSE 1]
\* scribe.Stat.inc('blacklist', ip): the key is created on the first probe
BlacklistInc(st, ip) ==
  [st EXCEPT !.blacklist =
     IF ip \in DOMAIN @ THEN [@ EXCEPT ![ip] = @ + 1]
     ELSE [k \in DOMAIN @ \cup {ip} |-> IF k = ip THEN 1 ELSE @[k]]]

RouterTable == [k \in {<<"a", ".", "a">>, <<"*", ".", "a">>} |->
                  IF k = <<"a", ".", "a">> THEN TargetX ELSE TargetY]
RouterHeaders == {Undefined, <<"a", ".", "a">>, <<"b", ".", "a">>,
                  <<"a", ".", "a", ":", "8">>, <<"b">>}
IP_10 == <<"1", "0", ".", "0", ".", "0", ".", "1">>
IP_110 == <<"1", "1", "0", ".", "0", ".", "0", ".", "1">>
IP_8 == <<"8", ".", "8", ".", "8", ".", "8">>
IP_192 == <<"1", "9", "2", ".", "1", "6", "8", ".", "0", ".", "1">>
RemoteAddrs == {Undefined, IP_10, IP_110, IP_8, IP_192}
ForwardedFor == {Undefined, IP_8}

InitRouter ==
  /\ lookup = IdleLookup
  /\ cfg \in [routes : {RouterTable}, verbose : BOOLEAN,
              target : {NoTarget, TargetY}, secure : {FALSE}]
  /\ stats = IdleStats /\ reqs = <<>> /\ last = IdleLast
  /\ proc = Running /\ listening = TRUE
  /\ disk = IdleDisk /\ secure = IdleSecure /\ loads = <<>> /\ hs = IdleHs
  /\ ac = IdleAc
  /\ db = IdleDb /\ call = IdleCall /\ timex = FALSE /\ fs = IdleFs /\ ev = IdleEv /\ site = IdleSite

Accepting == listening /\ proc.state # "exited" /\ Len(reqs) < MaxReqs

\* proxyRouter(rqst, rply): the 'request' handler of the server
proxyRouter(header, xff, remote) ==
  LET ip == SourceIP(xff, remote)
      seen == [kind |-> "http", header |-> header, ip |-> ip, before |-> stats]
  IN
  /\ Accepting
  /\ last' = seen
  /\ IF header = Undefined
     THEN \* rqst.headers.host.split: TypeError, nothing in the handler catches it
          /\ reqs' = Append(reqs, [kind |-> "http", fwd |-> NoTarget, out |-> "threw"])
          /\ proc' = uncaughtException(proc)
          /\ UNCHANGED stats
     ELSE LET host == HostOf(header)
              route == ResolveRoute(cfg.routes, host)
          IN  IF route # NoRoute
              THEN /\ stats' = StatInc(stats, "served")
                   /\ reqs' = Append(reqs, [kind |-> "http", fwd |-> route, out |-> "inflight"])
                   /\ UNCHANGED proc
              ELSE /\ stats' = IF ~localIP(ip) \/ cfg.verbose
                               THEN BlacklistInc(StatInc(stats, "probes"), ip)
                               ELSE stats
                   /\ reqs' = Append(reqs, [kind |-> "http", fwd |-> NoTarget, out |-> "ended"])
                   /\ UNCHANGED proc
  /\ UNCHANGED <<lookup, cfg, listening, disk, secure, loads, hs, ac, db, call, timex, fs, ev, site>>

\* this.proxy.on('error'): the handler of the errors http-proxy emits
proxyOnError(st) == StatInc(st, "errors")

\* server.on('upgrade'): this.proxy.ws(req, socket, head) without a target, so
\* http-proxy uses the target of its creation options or emits
\* 'Must provide a proper URL as target' to the error handler, whose
\* rply.writeHead on the socket throws into its own try/catch
upgrade(header, xff, remote) ==
  /\ Accepting
  /\ last' = [kind |-> "upgrade", header |-> header, ip |-> SourceIP(xff, remote),
              before |-> stats]
  /\ IF cfg.target # NoTarget
     THEN /\ reqs' = Append(reqs, [kind |-> "upgrade", fwd |-> cfg.target, out |-> "inflight"])
          /\ UNCHANGED stats
     ELSE /\ reqs' = Append(reqs, [kind |-> "upgrade", fwd |-> NoTarget, out |-> "wserror"])
          /\ stats' = proxyOnError(stats)
  /\ UNCHANGED <<lookup, cfg, proc, listening, disk, secure, loads, hs, ac, db, call, timex, fs, ev, site>>

\* the backend answered a forwarded request
backendReply(r) ==
  /\ proc.state # "exited"
  /\ r \in DOMAIN reqs /\ reqs[r].out = "inflight"
  /\ reqs' = [reqs EXCEPT ![r].out = "backend"]
  /\ UNCHANGED <<lookup, cfg, stats, last, proc, listening, disk, secure, loads, hs, ac, db, call, timex, fs, ev, site>>

\* http-proxy failed to forward a request (backend down): 'error' handler
\* counts it and writes the 500 response; on an upgraded socket the write
\* throws into the handler's try/catch
proxyError(r) ==
  /\ proc.state # "exited"
  /\ r \in DOMAIN reqs /\ reqs[r].out = "inflight"
  /\ stats' = proxyOnError(stats)
  /\ reqs' = [reqs EXCEPT ![r].out = IF reqs[r].kind = "http" THEN "e500" ELSE "wserror"]
  /\ UNCHANGED <<lookup, cfg, last, proc, listening, disk, secure, loads, hs, ac, db, call, timex, fs, ev, site>>

\* setTimeout(process.exit, cleanup.delay, code) fires
processExit ==
  /\ proc.state = "exiting"
  /\ proc' = [proc EXCEPT !.state = "exited"]
  /\ listening' = FALSE
  /\ reqs' = [r \in DOMAIN reqs |->
                IF reqs[r].out = "inflight" THEN [reqs[r] EXCEPT !.out = "dropped"]
                ELSE reqs[r]]
  /\ UNCHANGED <<lookup, cfg, stats, last, disk, secure, loads, hs, ac, db, call, timex, fs, ev, site>>

NextRouter ==
  \/ \E h \in RouterHeaders, x \in ForwardedFor, a \in RemoteAddrs : proxyRouter(h, x, a)
  \/ \E h \in RouterHeaders, x \in ForwardedFor, a \in RemoteAddrs : upgrade(h, x, a)
  \/ \E r \in 1..MaxReqs : backendReply(r)
  \/ \E r \in 1..MaxReqs : proxyError(r)
  \/ processExit
SpecRouter == InitRouter /\ [][NextRouter]_vars

\* the latest request and the route the table gives for its Host header
Latest == reqs[Len(reqs)]
RouteOfLatest ==
  IF last.header = Undefined THEN NoRoute
  ELSE ResolveRoute(cfg.routes, HostOf(last.header))

\* C2: a request is forwarded iff its host resolves to a route, and then to
\* that route's target, adding exactly one to 'served'; a request with no
\* route gets the no-route response, its response is ended and 'served'
\* stays as it was.
C2_Forwarding ==
  last.kind = "http" =>
    /\ Latest.fwd = RouteOfLatest
    /\ RouteOfLatest # NoRoute => stats.served = last.before.served + 1
    /\ RouteOfLatest = NoRoute =>
         Latest.out = "ended" /\ stats.served = last.before.served

\* C7: every exception raised while a request is handled or forwarded is
\* answered with the 500 response and counted in 'errors'; the process is
\* never terminated and no in-flight request is lost.
C7_Caught ==
  /\ proc.state = "running"
  /\ \A r \in DOMAIN reqs :
       reqs[r].kind = "http" => reqs[r].out \notin {"threw", "dropped"}
  /\ stats.errors = Count({r \in DOMAIN reqs : reqs[r].out \in {"e500", "wserror"}})

\* C8: an upgrade request for host h is forwarded to the target the route
\* table gives for h, and to no backend when h has no route.
C8_Upgrade ==
  last.kind = "upgrade" => Latest.fwd = RouteOfLatest

\* the address ranges 192.168.x.x, 127.x.x.x, 10.x.x.x and 169.254.x.x
InPrivateRange(ip) ==
  LET p == split(ip, ".")
  IN  /\ Len(p) = 4
      /\ \A i \in 1..4 : IsDigits(p[i])
      /\ \/ p[1] = <<"1", "9", "2">> /\ p[2] = <<"1", "6", "8">>
         \/ p[1] = <<"1", "2", "7">>
         \/ p[1] = <<"1", "0">>
         \/ p[1] = <<"1", "6", "9">> /\ p[2] = <<"2", "5", "4">>

\* C9: a request with no route adds exactly one to 'probes' when its source
\* address is outside the private/loopback ranges or verbose is set, and
\* nothing otherwise; a routed request never changes 'probes'.
C9_Probes ==
  (last.kind = "http" /\ last.header # Undefined) =>
    stats.probes = last.before.probes +
      (IF RouteOfLatest = NoRoute /\ (~InPrivateRange(last.ip) \/ cfg.verbose)
       THEN 1 ELSE 0)

(***************************************************************************)
(* Specification SpecTLS: secret loading and the SNI callback              *)
(*                                                                         *)
(* A key is its version number; a cert holds the version of the key it     *)
(* certifies and its public key algorithm.  The renewal process replaces   *)
(* the two PEM files one after the other.                                  *)
(***************************************************************************)
Versions == 1..MaxVersion
Algs == {"rsa", "ec"}
Certs == [ver : Versions, alg : Algs]
LoadIds == 0..MaxReloads

\* forge.pki.certificateFromPem(secrets.cert): throws unless the public key
\* of the certificate is an RSA key
forgeAccepts(cert) == cert.alg = "rsa"

\* tls.createSecureContext(secrets): throws when the private key does not
\* belong to the certificate (or an entry is missing)
createSecureContextOk(secrets) ==
  secrets.cert # NoCert /\ secrets.key = secrets.cert.ver

NewLoad == [pc |-> "new", key |-> 0]

\* new Proxy(context) up to the first await of loadSecrets(cfg.files)
InitTLS ==
  /\ lookup = IdleLookup
  /\ cfg \in [routes : {RouterTable}, verbose : {FALSE}, target : {NoTarget},
              secure : BOOLEAN]
  /\ stats = IdleStats /\ reqs = <<>> /\ last = IdleLast
  /\ proc = Running
  /\ listening = FALSE
  /\ disk \in [key : {1}, cert : [ver : {1}, alg : Algs]]
  /\ secure = IdleSecure
  /\ loads = [i \in LoadIds |->
                IF i = 0 THEN [pc |-> IF cfg.secure THEN "key" ELSE "nosecure", key |-> 0]
                ELSE NewLoad]
  /\ hs = IdleHs
  /\ ac = IdleAc
  /\ db = IdleDb /\ call = IdleCall /\ timex = FALSE /\ fs = IdleFs /\ ev = IdleEv /\ site = IdleSite

\* a constructor that starts the server however the initial load settles
startsOnMut(i, outcome) == i = 0

\* .then(x=>{this.start(context.router)}) of the constructor
startsOn(i, outcome) == i = 0 /\ outcome = "ok"
\* .catch(e=>this.scribe.fatal(...)) of the constructor
fatalOn(i, outcome) == i = 0 /\ outcome = "err"

\* a loadSecrets() call settles: the constructor's handlers run for the
\* initial load, the renew action answers its request for a reload
Settle(i, outcome) ==
  /\ listening' = (listening \/ startsOn(i, outcome))
  /\ proc' = IF fatalOn(i, outcome) THEN fatal(proc) ELSE proc
  /\ hs' = [hs EXCEPT !.lastDone = outcome, !.lastId = i, !.sinceDone = 0,
                      !.sinceOk = IF outcome = "ok" THEN 0 ELSE @,
                      !.rebuilds = IF outcome = "ok" THEN 0 ELSE @]

\* the constructor applied to a proxy without cfg.secure: initSecure
\* returns at once and start() runs
startPlain ==
  /\ proc.state # "exited"
  /\ loads[0].pc = "nosecure"
  /\ loads' = [loads EXCEPT ![0].pc = "ok"]
  /\ listening' = (listening \/ startsOn(0, "ok"))
  /\ UNCHANGED <<lookup, cfg, stats, reqs, last, proc, disk, secure, hs, ac, db, call, timex, fs, ev, site>>

\* site.proxy().loadSecrets(): a reload, up to its first await
loadSecrets(i) ==
  /\ proc.state # "exited"
  /\ i # 0 /\ loads[i].pc = "new"
  /\ loads[0].pc # "nosecure"
  /\ loads' = [loads EXCEPT ![i].pc = IF cfg.secure THEN "key" ELSE "ok"]
  /\ UNCHANGED <<lookup, cfg, stats, reqs, last, proc, listening, disk, secure, hs, ac, db, call, timex, fs, ev, site>>

\* a loop that stores each file in this.secure.secrets as it is read
readKeyMut(i) ==
  /\ proc.state # "exited"
  /\ loads[i].pc = "key"
  /\ loads' = [loads EXCEPT ![i] = [pc |-> "cert", key |-> disk.key]]
  /\ secure' = [secure EXCEPT !.secrets.key = disk.key]
  /\ UNCHANGED <<lookup, cfg, stats, reqs, last, proc, listening, disk, hs, ac, db, call, timex, fs, ev, site>>

\* await fsp.readFile(files.key) returns: the loop goes on to the cert
readKey(i) ==
  /\ proc.state # "exited"
  /\ loads[i].pc = "key"
  /\ loads' = [loads EXCEPT ![i] = [pc |-> "cert", key |-> disk.key]]
  /\ UNCHANGED <<lookup, cfg, stats, reqs, last, proc, listening, disk, secure, hs, ac, db, call, timex, fs, ev, site>>

\* await fsp.readFile(files.cert) returns: the bundle is stored, the flag
\* is set, and only then is the certificate parsed
readCert(i) ==
  /\ proc.state # "exited"
  /\ loads[i].pc = "cert"
  /\ secure' = [secure EXCEPT !.secrets = [key |-> loads[i].key, cert |-> disk.cert],
                              !.changed = TRUE]
  /\ LET outcome == IF forgeAccepts(disk.cert) THEN "ok" ELSE "err"
     IN  /\ loads' = [loads EXCEPT ![i].pc = outcome]
         /\ Settle(i, outcome)
  /\ UNCHANGED <<lookup, cfg, stats, reqs, last, disk, ac, db, call, timex, fs, ev, site>>

\* await fsp.readFile(...) rejects (file missing or unreadable): the catch
\* block logs and rethrows before anything is stored
readFails(i) ==
  /\ proc.state # "exited"
  /\ loads[i].pc \in {"key", "cert"}
  /\ loads' = [loads EXCEPT ![i].pc = "err"]
  /\ Settle(i, "err")
  /\ UNCHANGED <<lookup, cfg, stats, reqs, last, disk, secure, ac, db, call, timex, fs, ev, site>>

\* SNICB(host, cb): one TLS handshake
SNICB ==
  /\ listening /\ cfg.secure /\ proc.state # "exited"
  /\ hs.sinceOk < MaxHandshakes
  /\ IF secure.changed
     THEN IF createSecureContextOk(secure.secrets)
          THEN /\ secure' = [secure EXCEPT !.changed = FALSE, !.context = secure.secrets]
               /\ hs' = [hs EXCEPT !.last = "ctx", !.ctx = secure.secrets,
                                   !.sinceOk = @ + 1, !.sinceDone = 1,
                                   !.rebuilds = @ + 1]
               /\ UNCHANGED proc
          ELSE \* createSecureContext throws after the flag is cleared; cb is
               \* never called and nothing catches the exception
               /\ secure' = [secure EXCEPT !.changed = FALSE]
               /\ hs' = [hs EXCEPT !.last = "threw", !.ctx = NoContext,
                                   !.sinceOk = @ + 1, !.sinceDone = 1]
               /\ proc' = uncaughtException(proc)
     ELSE /\ hs' = [hs EXCEPT !.last = "ctx", !.ctx = secure.context,
                              !.sinceOk = @ + 1, !.sinceDone = 1]
          /\ UNCHANGED <<secure, proc>>
  /\ UNCHANGED <<lookup, cfg, stats, reqs, last, listening, disk, loads, ac, db, call, timex, fs, ev, site>>

\* the renewal process writes a new private key file
writeKey(v) ==
  /\ proc.state # "exited"
  /\ disk.key # v
  /\ disk' = [disk EXCEPT !.key = v]
  /\ UNCHANGED <<lookup, cfg, stats, reqs, last, proc, listening, secure, loads, hs, ac, db, call, timex, fs, ev, site>>

\* the renewal process writes a new certificate file
writeCert(c) ==
  /\ proc.state # "exited"
  /\ disk.cert # c
  /\ disk' = [disk EXCEPT !.cert = c]
  /\ UNCHANGED <<lookup, cfg, stats, reqs, last, proc, listening, secure, loads, hs, ac, db, call, timex, fs, ev, site>>

NextTLS ==
  \/ startPlain
  \/ \E i \in LoadIds : loadSecrets(i)
  \/ \E i \in LoadIds : readKey(i)
  \/ \E i \in LoadIds : readCert(i)
  \/ \E i \in LoadIds : readFails(i)
  \/ SNICB
  \/ \E v \in Versions : writeKey(v)
  \/ \E c \in Certs : writeCert(c)
  \/ processExit
SpecTLS == InitTLS /\ [][NextTLS]_vars

\* C3: between two consecutive successful loadSecrets() calls the context
\* is rebuilt at most once (hs.rebuilds counts the rebuilds since the
\* latest successful load settled).
C3_RebuildOnce == hs.rebuilds <= 1

\* C4: a handshake that follows a successful reload, with no other load
\* settled since, is handed the context built from the key/cert that the
\* reload stored.
C4_FreshContext ==
  (hs.lastDone = "ok" /\ hs.lastId # 0 /\ hs.sinceDone = 1) =>
    (hs.last = "ctx" /\ hs.ctx = secure.secrets)

\* C5: a reload that reports an error leaves the secret bundle, the changed
\* flag and the cached context as they were, and the process running.
C5_FailedReloadKeeps ==
  [][\A i \in 1..MaxReloads :
       (listening /\ loads[i].pc # "err" /\ loads'[i].pc = "err") =>
         (secure' = secure /\ proc' = proc)]_vars

\* C6: a secure proxy listens only after its initial load has succeeded; if
\* the initial load fails the proxy never listens and the process exits
\* with the fatal code.
C6_ListenAfterLoad ==
  cfg.secure =>
    /\ listening => loads[0].pc = "ok"
    /\ loads[0].pc = "err" => (~listening /\ proc = [state |-> "exited", code |-> 100])

C6_Witness ==
  cfg.secure /\ listening /\ proc.state = "running" /\ hs.last = "ctx"

(***************************************************************************)
(* Specification SpecReloads: reloads of a listening secure proxy that     *)
(* overlap, while the renewal process replaces the files; the calls are    *)
(* numbered in the order they start, and so are the renewals               *)
(***************************************************************************)
MaxOverlap == 2      \* loadSecrets() reloads that may be in flight together

\* the proxy after its initial load and start(): the first bundle is in
\* memory and no handshake has happened yet
InitReloads ==
  /\ lookup = IdleLookup
  /\ cfg = [routes |-> RouterTable, verbose |-> FALSE, target |-> NoTarget, secure |-> TRUE]
  /\ stats = IdleStats /\ reqs = <<>> /\ last = IdleLast
  /\ proc = Running
  /\ listening = TRUE
  /\ disk = [key |-> 1, cert |-> [ver |-> 1, alg |-> "rsa"]]
  /\ secure = [secrets |-> disk, changed |-> TRUE, context |-> NoContext]
  /\ loads = [i \in 0..MaxOverlap |-> IF i = 0 THEN [pc |-> "ok", key |-> 1] ELSE NewLoad]
  /\ hs = IdleHs
  /\ ac = IdleAc
  /\ db = IdleDb /\ call = IdleCall /\ timex = FALSE /\ fs = IdleFs /\ ev = IdleEv /\ site = IdleSite

NextReloads ==
  \/ \E i \in 1..MaxOverlap : (\A j \in 1..(i - 1) : loads[j].pc # "new") /\ loadSecrets(i)
  \/ \E i \in 1..MaxOverlap : readKey(i)
  \/ \E i \in 1..MaxOverlap : readCert(i)
  \/ \E i \in 1..MaxOverlap : readFails(i)
  \/ SNICB
  \/ \E v \in Versions : v > disk.key /\ writeKey(v)
  \/ \E c \in Certs : c.ver > disk.cert.ver /\ writeCert(c)
SpecReloads == InitReloads /\ [][NextReloads]_vars

\* C37: the secret bundle in memory only changes as a whole, to the key and
\* the cert that one loadSecrets() call read, and a context is only built
\* from the bundle in memory; a call that fails, or that another call
\* overtakes, stores nothing of its own before its last file is read
C37_WholeBundle ==
  [][/\ secure'.secrets # secure.secrets =>
          \E i \in DOMAIN loads :
            /\ loads[i].pc = "cert" /\ loads'[i].pc \in {"ok", "err"}
            /\ loads[i].key # 0 /\ disk.cert # NoCert
            /\ secure'.secrets = [key |-> loads[i].key, cert |-> disk.cert]
     /\ secure'.context # secure.context => secure'.context = secure.secrets]_vars
\* two reloads overlapped, one failed midway, and a handshake built its
\* context from the bundle of the other
C37_Witness ==
  \E i, j \in 1..MaxOverlap :
    /\ i # j /\ loads[i].pc = "ok" /\ loads[j].pc = "err"
    /\ hs.last = "ctx" /\ hs.ctx = secure.secrets /\ hs.lastId = i
    /\ secure.secrets.key = 2 /\ secure.secrets.cert.ver = 2

(***************************************************************************)
(* Specification SpecAuth: the recipe store's authorization check          *)
(*                                                                         *)
(* A value is [t, b, v]: undefined, a boolean b, an array v of group       *)
(* names, or a string v of characters (a comma delimited list).            *)
(***************************************************************************)
JsUndefined == [t |-> "undef", b |-> FALSE, v |-> <<>>]
JsBool(b) == [t |-> "bool", b |-> b, v |-> <<>>]
JsArray(a) == [t |-> "arr", b |-> FALSE, v |-> a]
JsString(str) == [t |-> "str", b |-> FALSE, v |-> str]

\* asList: x instanceof Array ? x : (x||'').split(',')
asList(x) == IF x.t = "arr" THEN x.v ELSE split(x.v, ",")

\* jxjDB.prototype.authorizationCheck(allowed, auth)
authorizationCheck(allowed, auth) ==
  IF allowed.t = "undef" THEN TRUE
  ELSE IF auth.t = "bool" THEN auth.b
  ELSE LET granted == asList(allowed)
           list == asList(auth)
       IN  \E i \in 1..Len(list) : \E j \in 1..Len(granted) : granted[j] = list[i]

Admin == <<"a", "d", "m", "i", "n">>
GroupNames == {<<"a">>, <<"b">>, Admin}
GroupArrays == {JsArray(a) : a \in StringsUpTo(GroupNames, 2)}
GroupStrings == {JsString(str) : str \in StringsUpTo({"a", ","}, MaxStrLen)}
                  \cup {JsString(Admin), JsString(<<"a", ",">> \o Admin)}
RecipeAuths == {JsUndefined} \cup GroupArrays \cup GroupStrings
AuthContexts == {JsUndefined, JsBool(TRUE), JsBool(FALSE)} \cup GroupArrays \cup GroupStrings

InitAuth ==
  /\ lookup = IdleLookup
  /\ cfg = [routes |-> <<>>, verbose |-> FALSE, target |-> NoTarget, secure |-> FALSE]
  /\ stats = IdleStats /\ reqs = <<>> /\ last = IdleLast
  /\ proc = Running /\ listening = FALSE
  /\ disk = IdleDisk /\ secure = IdleSecure /\ loads = <<>> /\ hs = IdleHs
  /\ ac \in [st : {"pending"}, allowed : RecipeAuths, authA : AuthContexts,
             authB : AuthContexts, resA : {FALSE}, resB : {FALSE}]
  /\ db = IdleDb /\ call = IdleCall /\ timex = FALSE /\ fs = IdleFs /\ ev = IdleEv /\ site = IdleSite

\* the check of one recipe for two callers
check ==
  /\ ac.st = "pending"
  /\ ac' = [ac EXCEPT !.st = "done",
                      !.resA = authorizationCheck(ac.allowed, ac.authA),
                      !.resB = authorizationCheck(ac.allowed, ac.authB)]
  /\ UNCHANGED <<lookup, cfg, stats, reqs, last, proc, listening, disk, secure, loads, hs,
               db, call, timex, fs, ev, site>>

NextAuth == check
SpecAuth == InitAuth /\ [][NextAuth]_vars

\* the groups a value lists: the names of an array, the names between the
\* commas of a string; undefined and booleans list none
GroupsOf(x) ==
  IF x.t = "arr" THEN {x.v[i] : i \in 1..Len(x.v)} \ {<<>>}
  ELSE IF x.t = "str" THEN {split(x.v, ",")[i] : i \in 1..Len(split(x.v, ","))} \ {<<>>}
  ELSE {}

Permitted(allowed, auth) ==
  \/ allowed.t = "undef"
  \/ auth.t = "bool" /\ auth.b
  \/ GroupsOf(auth) \cap GroupsOf(allowed) # {}

\* C10: the check permits a caller iff the recipe declares no auth, or the
\* auth context is true, or the caller's groups and the recipe's groups
\* share a group; so a recipe permitted for groups A is permitted for every
\* B that includes A.
C10_Authorization ==
  ac.st = "done" =>
    /\ ac.resA = Permitted(ac.allowed, ac.authA)
    /\ (/\ ac.authA.t # "bool" /\ ac.authB.t # "bool"
        /\ GroupsOf(ac.authA) \subseteq GroupsOf(ac.authB)
        /\ ac.resA) => ac.resB

\* C11: a caller whose groups include admin is permitted whatever the auth
\* list of the recipe is.
C11_AdminPermitted ==
  (ac.st = "done" /\ Admin \in GroupsOf(ac.authA)) => ac.resA

(***************************************************************************)
(* The recipe store (jxjDB.js): recipes, look-up and query                 *)
(*                                                                         *)
(* A record of a collection is a number and a returned array holds the     *)
(* records in order.  A recipe expression is one of four JSONata           *)
(* expressions, named after what its evaluation gives: the collection      *)
(* itself, nothing, the number 0, or an evaluation error.                  *)
(***************************************************************************)
JsObject == [t |-> "obj", b |-> FALSE, v |-> <<>>]        \* {}
JsNumber(n) == [t |-> "num", b |-> FALSE, v |-> <<n>>]
JsRecord(id) == [t |-> "rec", b |-> FALSE, v |-> <<id>>]    \* a record object

\* JavaScript truthiness of the values of the model
Truthy(x) ==
  CASE x.t = "undef" -> FALSE
    [] x.t = "bool" -> x.b
    [] x.t = "num" -> x.v[1] # 0
    [] x.t = "str" -> Len(x.v) > 0
    [] OTHER -> TRUE

\* x || y
Or(x, y) == IF Truthy(x) THEN x ELSE y

\* verifyThat(x,'isDefined')
isDefined(x) == x.t # "undef"

Quote == "\""
NameR == <<"r">>
NameU == <<"u">>
NameQ == <<"r", Quote>>
NoName == <<>>
Header == 7      \* the header record of a recipe
Mutated == 9     \* a record after a caller has written to it

Expressions == {"items", "missing", "zero", "raise"}
Limits == (0 - MaxLimit)..MaxLimit

\* the recipes named r that a store may hold; limit 0 and header/empty
\* undefined stand for a recipe that does not declare the field, and no
\* recipe declares a field 'limt'
Recipes ==
  [name : {NameR}, auth : {JsUndefined, JsArray(<<(<<"a">>)>>)},
   expression : Expressions, empty : {JsUndefined, JsArray(<<>>)},
   limit : Limits, limt : {JsUndefined}, header : {JsUndefined, JsRecord(Header)}]

\* Object.assign({}, undefined || {})
NoRecipe ==
  [name |-> NoName, auth |-> JsUndefined, expression |-> "missing", empty |-> JsUndefined,
   limit |-> 0, limt |-> JsUndefined, header |-> JsUndefined]

\* jsonata(`_.recipes[name="${recipeName}"]`): the name is pasted between
\* double quotes, so a name that holds a double quote is a syntax error
lookupThrows(recipeName) == \E i \in 1..Len(recipeName) : recipeName[i] = Quote

\* jxjDB.prototype.lookup
lookupRecipe(store, recipeName) ==
  LET found == {i \in 1..Len(store.recipes) : store.recipes[i].name = recipeName}
  IN  IF Cardinality(found) = 1 THEN store.recipes[CHOOSE i \in found : TRUE]
      ELSE NoRecipe

\* jsonata(recipe.expression).evaluate(this.db,bindings)
evaluateThrows(recipe) == recipe.expression = "raise"
evaluate(store, recipe) ==
  CASE recipe.expression = "items" -> JsArray(store.items)
    [] recipe.expression = "zero" -> JsNumber(0)
    [] OTHER -> JsUndefined

\* Math.abs of a number or of undefined (NaN)
NaN == JsUndefined
abs(x) == IF x.t = "num" THEN JsNumber(IF x.v[1] < 0 THEN 0 - x.v[1] ELSE x.v[1]) ELSE NaN
\* n > x, false when x is NaN
greaterThan(n, x) == x.t = "num" /\ n > x.v[1]

\* Array.prototype.slice(begin) and slice(0,end)
sliceFrom(s, begin) ==
  IF begin < 0 THEN SubSeq(s, (IF Len(s) + begin < 0 THEN 0 ELSE Len(s) + begin) + 1, Len(s))
  ELSE SubSeq(s, begin + 1, Len(s))
sliceTo(s, end) == SubSeq(s, 1, IF end < Len(s) THEN end ELSE Len(s))

\* the limit line of query: recipe.limit && (tmp.length>Math.abs(recipe.limt))
limited(recipe, s) ==
  IF recipe.limit # 0 /\ greaterThan(Len(s), abs(recipe.limt))
  THEN (IF recipe.limit < 0 THEN sliceFrom(s, recipe.limit) ELSE sliceTo(s, recipe.limit))
  ELSE s

\* what query hands back: the value, whether the call threw, the part of
\* the value that comes from the recipe (its header, its empty value) and
\* whether that part is the very object the store holds: lookup copies the
\* recipe one level deep, so recipe.header and recipe.empty of a recipe
\* looked up by name are the store's own objects
Returned(out, part, live) == [out |-> out, threw |-> FALSE, part |-> part, live |-> live]
Threw == [out |-> JsUndefined, threw |-> TRUE, part |-> "none", live |-> FALSE]

\* jxjDB.prototype.query(recipeSpec, bindings, auth); a spec is a name
\* (byName) or a recipe object
query(store, spec, auth) ==
  IF spec.byName /\ lookupThrows(spec.name) THEN Threw
  ELSE
    LET recipe == IF spec.byName THEN lookupRecipe(store, spec.name) ELSE spec.recipe
        own == spec.byName
        tmp == evaluate(store, recipe)
        copy == Or(tmp, Or(recipe.empty, JsObject))   \* JSON.parse(JSON.stringify(...))
        fallback ==
          IF Truthy(recipe.empty) THEN Returned(recipe.empty, "empty", own)
          ELSE Returned(JsObject, "none", FALSE)
    IN  IF recipe.name # NoName /\ authorizationCheck(recipe.auth, auth)
        THEN IF evaluateThrows(recipe) THEN Returned(JsUndefined, "none", FALSE)
             ELSE IF isDefined(tmp)
                  THEN IF copy.t = "arr"
                       THEN IF Truthy(recipe.header)
                            THEN Returned(JsArray(<<recipe.header.v[1]>> \o limited(recipe, copy.v)),
                                          "header", own)
                            ELSE Returned(JsArray(limited(recipe, copy.v)), "none", FALSE)
                       ELSE Returned(copy, "none", FALSE)
                  ELSE fallback
        ELSE fallback

\* the reply to a request: rply.json(d) or the error envelope of next(code);
\* next() without a code falls through to the final 404
Response(status, body) == [status |-> status, body |-> body]
NoResponse == Response(0, JsUndefined)

\* dataMiddleware GET: db.inquire(recipe, bindings, member) then rply.json
\* or next; the route admits word characters only, and no recipe of the
\* model declares xjson
dataGet(store, recipeName, member) ==
  LET recipe == lookupRecipe(store, recipeName)
  IN  IF recipe.name # NoName
      THEN IF authorizationCheck(recipe.auth, member)
           THEN Response(200, Or(query(store, [byName |-> FALSE, name |-> NoName, recipe |-> recipe],
                                       JsBool(TRUE)).out,
                                 Or(recipe.empty, JsObject)))
           ELSE Response(401, JsUndefined)
      ELSE Response(404, JsUndefined)

(***************************************************************************)
(* Specification SpecQuery: one call on a loaded store, then the caller    *)
(* writes to what it was handed and asks again                             *)
(***************************************************************************)
Items(n) == [i \in 1..n |-> i]
Stores == [recipes : {<<r>> : r \in Recipes}, items : {Items(n) : n \in 0..MaxItems}]

ByName(n) == [byName |-> TRUE, name |-> n, recipe |-> NoRecipe]
ByObject(r) == [byName |-> FALSE, name |-> NoName, recipe |-> r]
\* the recipe objects a caller passes itself
OwnRecipes == {r \in Recipes : r.auth = JsUndefined /\ r.limit = 0 /\ r.empty = JsUndefined}
Specs == {ByName(NameR), ByName(NameU), ByName(NameQ)} \cup {ByObject(r) : r \in OwnRecipes}
Members == {JsBool(TRUE), JsBool(FALSE), JsArray(<<(<<"a">>)>>), JsArray(<<(<<"b">>)>>)}

\* the store without the recipes of a name
Without(store, n) ==
  [store EXCEPT !.recipes = SelectSeq(store.recipes, LAMBDA r : r.name # n)]

QueryIdle ==
  [st |-> "idle", op |-> "none", spec |-> ByName(NoName), auth |-> JsBool(FALSE),
   res |-> Threw, twin |-> Threw, resp |-> NoResponse, twinResp |-> NoResponse,
   db0 |-> IdleDb, first |-> JsUndefined, again |-> JsUndefined]

InitQuery ==
  /\ lookup = IdleLookup
  /\ cfg = [routes |-> <<>>, verbose |-> FALSE, target |-> NoTarget, secure |-> FALSE]
  /\ stats = IdleStats /\ reqs = <<>> /\ last = IdleLast
  /\ proc = Running /\ listening = FALSE
  /\ disk = IdleDisk /\ secure = IdleSecure /\ loads = <<>> /\ hs = IdleHs
  /\ ac = IdleAc
  /\ db \in Stores
  /\ call = QueryIdle
  /\ timex = FALSE /\ fs = IdleFs /\ ev = IdleEv /\ site = IdleSite

otherVars ==
  <<lookup, cfg, stats, reqs, last, proc, listening, disk, secure, loads, hs, ac, fs, ev, site>>

\* db.query(recipeSpec, bindings, auth); twin is the same call on the store
\* that lacks the named recipe
queryCall(spec, auth) ==
  /\ call.st = "idle"
  /\ LET res == query(db, spec, auth)
     IN  call' = [call EXCEPT !.st = "returned", !.op = "query", !.spec = spec, !.auth = auth,
                              !.res = res, !.twin = query(Without(db, spec.name), spec, auth),
                              !.db0 = db, !.first = res.out]
  /\ UNCHANGED <<db, timex, otherVars>>

\* GET /$recipe by a caller with the given member list
dataMiddlewareGet(recipeName, member) ==
  /\ call.st = "idle"
  /\ call' = [call EXCEPT !.st = "replied", !.op = "get", !.spec = ByName(recipeName),
                          !.auth = member, !.db0 = db,
                          !.resp = dataGet(db, recipeName, member),
                          !.twinResp = dataGet(Without(db, recipeName), recipeName, member)]
  /\ UNCHANGED <<db, timex, otherVars>>

\* the caller writes to the value query returned: to its last data record,
\* to the header record in front, or to the empty value
mutate(part) ==
  /\ call.st = "returned" /\ ~call.res.threw
  /\ LET out == call.res.out
         n == Len(out.v)
         i == CHOOSE j \in 1..Len(db.recipes) : db.recipes[j].name = call.spec.name
     IN  \/ /\ part = "data"
            /\ out.t = "arr" /\ n > (IF call.res.part = "header" THEN 1 ELSE 0)
            /\ call.res.part # "empty"
            /\ call' = [call EXCEPT !.st = "mutated", !.res.out.v[n] = Mutated]
            /\ UNCHANGED db
         \/ /\ part = "header"
            /\ call.res.part = "header"
            /\ call' = [call EXCEPT !.st = "mutated", !.res.out.v[1] = Mutated]
            /\ IF call.res.live
               THEN db' = [db EXCEPT !.recipes[i].header = JsRecord(Mutated)]
               ELSE UNCHANGED db
         \/ /\ part = "empty"
            /\ call.res.part = "empty" /\ out.t = "arr"
            /\ call' = [call EXCEPT !.st = "mutated", !.res.out.v = Append(@, Mutated)]
            /\ IF call.res.live
               THEN db' = [db EXCEPT !.recipes[i].empty = JsArray(Append(@.v, Mutated))]
               ELSE UNCHANGED db
  /\ UNCHANGED <<timex, otherVars>>

\* the same query once more
queryAgain ==
  /\ call.st = "mutated"
  /\ call' = [call EXCEPT !.st = "again", !.again = query(db, call.spec, call.auth).out]
  /\ UNCHANGED <<db, timex, otherVars>>

NextQuery ==
  \/ \E spec \in Specs, auth \in Members : queryCall(spec, auth)
  \/ \E n \in {NameR, NameU}, member \in Members : dataMiddlewareGet(n, member)
  \/ \E part \in {"data", "header", "empty"} : mutate(part)
  \/ queryAgain
SpecQuery == InitQuery /\ [][NextQuery]_vars

\* the recipe a call resolved, and whether the claim permits its caller
RecipeOf(c) == IF c.spec.byName THEN lookupRecipe(c.db0, c.spec.name) ELSE c.spec.recipe
Known(c) == RecipeOf(c).name # NoName
Refused(c) == Known(c) /\ ~Permitted(RecipeOf(c).auth, c.auth)

\* C12: query() with a name that is not in the store raises no error, leaves
\* the store unchanged and returns {}; and a caller who is refused an
\* existing recipe gets from query() and from the GET handler exactly what
\* the same call gives on a store without that recipe.
C12_SilentUnknown ==
  /\ (call.st = "returned" /\ call.spec.byName /\ ~Known(call)) =>
       (~call.res.threw /\ call.res.out = JsObject /\ db = call.db0)
  /\ (call.st = "returned" /\ call.spec.byName /\ Refused(call)) =>
       (call.res.threw = call.twin.threw /\ call.res.out = call.twin.out)
  /\ (call.st = "replied" /\ Refused(call)) => call.resp = call.twinResp

\* C13: writing to any part of a value query() returned changes neither the
\* store nor what the same query returns afterwards.
C13_NoLiveReference ==
  /\ call.st \in {"mutated", "again"} => db = call.db0
  /\ call.st = "again" => call.again = call.first

FirstN(s, n) == SubSeq(s, 1, IF n < Len(s) THEN n ELSE Len(s))
LastN(s, n) == SubSeq(s, (IF n < Len(s) THEN Len(s) - n ELSE 0) + 1, Len(s))

\* C14: when the evaluation gives a sequence and the recipe sets limit N # 0,
\* the data records returned are the first N (N > 0) or the last |N| (N < 0)
\* records of the sequence, behind the header record when one is declared.
C14_Limit ==
  LET R == RecipeOf(call)
      data == IF Truthy(R.header) THEN Tail(call.res.out.v) ELSE call.res.out.v
  IN  (/\ call.st = "returned" /\ ~call.res.threw
       /\ Known(call) /\ Permitted(R.auth, call.auth)
       /\ R.expression = "items" /\ R.limit # 0) =>
        /\ call.res.out.t = "arr"
        /\ Truthy(R.header) => call.res.out.v[1] = Header
        /\ data = IF R.limit > 0 THEN FirstN(call.db0.items, R.limit)
                  ELSE LastN(call.db0.items, 0 - R.limit)

\* C15: query() never throws, and it returns undefined exactly when the
\* evaluation of the recipe expression raised an exception.
C15_UndefinedOnError ==
  call.st = "returned" =>
    /\ ~call.res.threw
    /\ call.res.out = JsUndefined <=>
         (Known(call) /\ Permitted(RecipeOf(call).auth, call.auth)
          /\ RecipeOf(call).expression = "raise")

\* C16: a GET whose recipe evaluation raises an exception is answered with
\* the 500 error envelope.
C16_EvaluationError500 ==
  (/\ call.st = "replied" /\ Known(call) /\ Permitted(RecipeOf(call).auth, call.auth)
   /\ RecipeOf(call).expression = "raise") => call.resp.status = 500

(***************************************************************************)
(* The recipe store (jxjDB.js): modify                                     *)
(*                                                                         *)
(* A record of the collection is {k, f, g}: its key k, a scalar f and a    *)
(* nested object g = {x, y}; 0 stands for a field the object does not      *)
(* have.  Objects are references in JavaScript: g.ref tells which nested   *)
(* object the record points to, "own" for an object only this record       *)
(* holds, "dflt" for the nested object of the collection defaults (db.D),  *)
(* which every record merged from the defaults shares.                     *)
(***************************************************************************)
Absent == 0
UndefinedField == 9     \* a key that is present with the value undefined
NoG == [ref |-> "none", x |-> Absent, y |-> Absent]
UndefG == [ref |-> "undef", x |-> Absent, y |-> Absent]
OwnG(x, y) == [ref |-> "own", x |-> x, y |-> y]
DfltG == [ref |-> "dflt", x |-> Absent, y |-> Absent]
Rec(k, f, g) == [k |-> k, f |-> f, g |-> g]
EmptyRec == Rec("", Absent, NoG)                       \* {}
Object_isObj(g) == g.ref \in {"own", "dflt"}

\* SafeData.jsonSafe(jx, filter) for jx = null (has = FALSE) or a record and
\* the filters '*', undefined ("none") and {k:'*', f:'*', g:'*'} ("keyed")
jsonSafeThrows(has, filter) == filter = "keyed" /\ ~has
jsonSafe(has, record, filter) ==
  CASE filter = "*" -> [has |-> has, record |-> record]
    [] filter = "none" -> [has |-> TRUE, record |-> EmptyRec]
    [] OTHER -> [has |-> TRUE,
                 record |-> Rec(record.k,
                                IF record.f = Absent THEN UndefinedField ELSE record.f,
                                IF record.g.ref = "none" THEN UndefG ELSE record.g)]

\* the nested object a g field points to
Target(g, D) == IF g.ref = "dflt" THEN D ELSE [x |-> g.x, y |-> g.y]
\* this[key].mergekeys(merged[key]) on a nested object
mergeNested(t, s) ==
  [x |-> IF s.x # Absent THEN s.x ELSE t.x, y |-> IF s.y # Absent THEN s.y ELSE t.y]

\* ({}).mergekeys(base).mergekeys(record): the new record and the nested
\* object of the defaults after the merge; the first merge copies the fields
\* of base by reference, the second merges into the nested object in place
mergekeys(base, record, D) ==
  LET both == Object_isObj(record.g) /\ Object_isObj(base.g)
      merged == mergeNested(Target(base.g, D), Target(record.g, D))
  IN  [rec |-> Rec(IF record.k # "" THEN record.k ELSE base.k,
                   CASE record.f = Absent -> base.f
                     [] record.f = UndefinedField -> Absent
                     [] OTHER -> record.f,
                   CASE record.g.ref = "none" -> base.g
                     [] record.g.ref = "undef" -> NoG
                     [] both /\ base.g.ref = "own" -> OwnG(merged.x, merged.y)
                     [] both -> DfltG
                     [] OTHER -> record.g),
       D |-> IF both /\ base.g.ref = "dflt" THEN merged ELSE D]

\* a reference rule that never finds the record
referenceMut(items, ref) == -1

\* jsonata(recipe.reference).evaluate(this.db,{ref:ref}) for the rule "the
\* first record whose key is ref, with its index": -1 stands for no result
reference(items, ref) ==
  LET found == {i \in 1..Len(items) : items[i].k = ref}
  IN  IF found = {} THEN -1 ELSE (CHOOSE i \in found : \A j \in found : i <= j) - 1

\* Array.prototype.splice(index,1)
splice(s, index) == SubSeq(s, 1, index) \o SubSeq(s, index + 2, Len(s))

\* one entry of results: a tuple [op, ref, index] or the string of an error
Outcome(op, ref, index) == [op |-> op, ref |-> ref, index |-> index]
ErrorString == Outcome("error", "", -1)
NullIndex == -1

\* the entries of data: null, a scalar, or {ref, record} with record absent
\* (has = FALSE) or an object
NullEntry == [t |-> "null", ref |-> "", has |-> FALSE, record |-> EmptyRec]
ScalarEntry == [t |-> "scalar", ref |-> "", has |-> FALSE, record |-> EmptyRec]
Pair(ref, has, record) == [t |-> "pair", ref |-> ref, has |-> has, record |-> record]

\* a loop that abandons an entry that raised without recording it
caughtMut(s) == s

\* the catch of the loop: results.push(e.toString())
caught(s) == [s EXCEPT !.results = Append(@, ErrorString)]

\* the body of the for loop of modify for one entry d, on the running state
\* s = [items, D, results, timex]
processEntry(s, d, recipe, defaults) ==
  IF d.t = "null" \/ jsonSafeThrows(d.has, recipe.filter) THEN caught(s)
  ELSE
    LET ref == d.ref
        safe == jsonSafe(d.has, d.record, recipe.filter)
        index == IF recipe.reference THEN reference(s.items, ref) ELSE NullIndex
        existing == IF index = NullIndex THEN defaults ELSE s.items[index + 1]
        m == mergekeys(existing, safe.record, s.D)
    IN  IF safe.has
        THEN IF index = NullIndex
             THEN [items |-> Append(s.items, m.rec), D |-> m.D,
                   results |-> Append(s.results, Outcome("add", ref, Len(s.items))),
                   timex |-> TRUE]
             ELSE [items |-> [s.items EXCEPT ![index + 1] = m.rec], D |-> m.D,
                   results |-> Append(s.results, Outcome("change", ref, index)),
                   timex |-> TRUE]
        ELSE [items |-> IF index # NullIndex THEN splice(s.items, index) ELSE s.items,
              D |-> s.D,
              results |-> Append(s.results, Outcome("delete", ref, index)),
              timex |-> TRUE]

\* the for loop: the running states before each entry and after the last
RECURSIVE loop(_, _, _, _)
loop(s, data, recipe, defaults) ==
  IF data = <<>> THEN <<s>>
  ELSE <<s>> \o loop(processEntry(s, Head(data), recipe, defaults), Tail(data), recipe, defaults)

\* verifyThat(data,'isArrayOfAnyObjects'): an array whose first element has
\* typeof 'object' (null has, undefined and scalars have not)
isArrayOfAnyObjects(data) ==
  data.t = "arr" /\ Len(data.v) > 0 /\ data.v[1].t \in {"null", "pair"}

\* what modify returns
RetList(results) == [t |-> "list", v |-> results]
RetNull == [t |-> "null", v |-> <<>>]
RetUndefined == [t |-> "undefined", v |-> <<>>]

\* jxjDB.prototype.modify(recipeSpec, data, auth): the value returned and
\* the running states of the loop
modify(store, tx, recipeName, data, auth) ==
  LET recipe == lookupRecipe(store, recipeName)
      s0 == [items |-> store.items, D |-> store.D, results |-> <<>>, timex |-> tx]
      defaults == store.defaults
      states == loop(s0, data.v, recipe, defaults)
  IN  IF recipe.name # NoName
      THEN IF authorizationCheck(recipe.auth, auth)
           THEN IF isArrayOfAnyObjects(data)
                THEN [ret |-> RetList(states[Len(states)].results), states |-> states]
                ELSE [ret |-> RetNull, states |-> <<s0>>]
           ELSE [ret |-> RetUndefined, states |-> <<s0>>]
      ELSE [ret |-> RetNull, states |-> <<s0>>]

(***************************************************************************)
(* Specification SpecModify: one modify() call on a loaded store           *)
(***************************************************************************)
Keys == {"a", "b"}
ModifyRecipes ==
  {[name |-> NameR, auth |-> JsArray(<<(<<"a">>)>>), collection |-> "items",
    reference |-> rf[1], filter |-> rf[2]] :
     rf \in {<<TRUE, "*">>, <<FALSE, "*">>, <<TRUE, "none">>, <<TRUE, "keyed">>}}
RecordsA == {Rec("a", Absent, NoG), Rec("a", 2, NoG), Rec("a", Absent, OwnG(2, Absent))}
RecordB == Rec("b", 2, NoG)
Collections == {<<>>, <<RecordB>>} \cup {<<a>> : a \in RecordsA} \cup {<<a, RecordB>> : a \in RecordsA}
Defaults == {EmptyRec, Rec("", 1, NoG), Rec("", Absent, DfltG)}
DfltNested == [x |-> Absent, y |-> 1]
ModifyStores ==
  [recipes : {<<r>> : r \in ModifyRecipes}, items : Collections, defaults : Defaults,
   D : {DfltNested}]

Entries ==
  {NullEntry, ScalarEntry, Pair("a", FALSE, EmptyRec), Pair("b", FALSE, EmptyRec),
   Pair("a", TRUE, Rec("a", 1, NoG)), Pair("a", TRUE, Rec("a", Absent, OwnG(1, Absent))),
   Pair("b", TRUE, Rec("b", Absent, OwnG(2, Absent))),
   Pair("b", TRUE, RecordB), Pair("a", TRUE, Rec("a", Absent, OwnG(2, Absent)))}
RECURSIVE Batches(_)
Batches(n) ==
  IF n = 0 THEN {<<>>}
  ELSE LET shorter == Batches(n - 1)
       IN  shorter \cup {Append(b, e) : b \in {c \in shorter : Len(c) = n - 1}, e \in Entries}
DataValues == {[t |-> "arr", v |-> b] : b \in Batches(MaxBatch)} \cup {[t |-> "obj", v |-> <<>>]}
ModifyCalls == {<<NameR, JsBool(TRUE)>>, <<NameR, JsBool(FALSE)>>, <<NameU, JsBool(TRUE)>>}

\* the document tree as JSON.stringify shows it: every g field replaced by
\* the content of the object it points to
DeepG(g, D) ==
  IF Object_isObj(g) THEN [has |-> TRUE, x |-> Target(g, D).x, y |-> Target(g, D).y]
  ELSE [has |-> FALSE, x |-> Absent, y |-> Absent]
DeepRec(r, D) == [k |-> r.k, f |-> r.f, g |-> DeepG(r.g, D)]
Tree(items, defaults, D) ==
  [items |-> [i \in 1..Len(items) |-> DeepRec(items[i], D)], defaults |-> DeepRec(defaults, D)]

ModifyIdle ==
  [st |-> "idle", op |-> "none", name |-> NoName, auth |-> JsBool(FALSE),
   data |-> [t |-> "obj", v |-> <<>>], ret |-> RetUndefined, trees |-> <<>>,
   recipe |-> NoRecipe, ret2 |-> RetUndefined, trees2 |-> <<>>]

InitModify ==
  /\ lookup = IdleLookup
  /\ cfg = [routes |-> <<>>, verbose |-> FALSE, target |-> NoTarget, secure |-> FALSE]
  /\ stats = IdleStats /\ reqs = <<>> /\ last = IdleLast
  /\ proc = Running /\ listening = FALSE
  /\ disk = IdleDisk /\ secure = IdleSecure /\ loads = <<>> /\ hs = IdleHs
  /\ ac = IdleAc
  /\ db \in ModifyStores
  /\ call = ModifyIdle
  /\ timex = FALSE /\ fs = IdleFs /\ ev = IdleEv /\ site = IdleSite

\* db.modify(recipeSpec, data, auth); trees is the document tree before each
\* entry of the loop and after the last
modifyCall(recipeName, data, auth) ==
  /\ call.st = "idle"
  /\ LET m == modify(db, timex, recipeName, data, auth)
         final == m.states[Len(m.states)]
     IN  /\ db' = [db EXCEPT !.items = final.items, !.D = final.D]
         /\ timex' = final.timex
         /\ call' = [call EXCEPT !.st = "returned", !.op = "modify", !.name = recipeName,
                                 !.auth = auth, !.data = data, !.ret = m.ret,
                                 !.recipe = lookupRecipe(db, recipeName),
                                 !.trees = [i \in 1..Len(m.states) |->
                                              Tree(m.states[i].items, db.defaults, m.states[i].D)]]
  /\ UNCHANGED otherVars

\* the same db.modify(recipeSpec, data, auth) a second time, for the calls
\* with a single entry
modifyAgain ==
  /\ call.st = "returned" /\ call.op = "modify"
  /\ call.data.t = "arr" /\ Len(call.data.v) = 1
  /\ LET m == modify(db, timex, call.name, call.data, call.auth)
         final == m.states[Len(m.states)]
     IN  /\ db' = [db EXCEPT !.items = final.items, !.D = final.D]
         /\ timex' = final.timex
         /\ call' = [call EXCEPT !.st = "again", !.ret2 = m.ret,
                                 !.trees2 = [i \in 1..Len(m.states) |->
                                               Tree(m.states[i].items, db.defaults, m.states[i].D)]]
  /\ UNCHANGED otherVars

NextModify ==
  \/ \E c \in ModifyCalls, data \in DataValues : modifyCall(c[1], data, c[2])
  \/ modifyAgain
SpecModify == InitModify /\ [][NextModify]_vars

\* a modify() call that returned its list of outcomes
Accepted == call.st = "returned" /\ call.op = "modify" /\ call.ret.t = "list"
EntryIds == 1..Len(call.data.v)
\* what the reference rule of the recipe finds for ref in a tree
Found(tree, ref) ==
  LET found == {i \in 1..Len(tree.items) : tree.items[i].k = ref}
  IN  IF call.recipe.reference /\ found # {}
      THEN (CHOOSE i \in found : \A j \in found : i <= j) - 1 ELSE -1
\* the record of an entry once the filter of the recipe has been applied
Filtered(e) == IF call.recipe.filter = "none" THEN DeepRec(EmptyRec, DfltNested)
               ELSE DeepRec(e.record, DfltNested)
\* lo <- hi, the fields of hi winning, recursively
DeepMerge(lo, hi) ==
  [k |-> IF hi.k # "" THEN hi.k ELSE lo.k,
   f |-> IF hi.f # Absent THEN hi.f ELSE lo.f,
   g |-> IF hi.g.has /\ lo.g.has
         THEN [has |-> TRUE, x |-> IF hi.g.x # Absent THEN hi.g.x ELSE lo.g.x,
               y |-> IF hi.g.y # Absent THEN hi.g.y ELSE lo.g.y]
         ELSE IF hi.g.has THEN hi.g ELSE lo.g]
Others(before, after, index) ==
  \A j \in 1..Len(before.items) : j # index + 1 => after.items[j] = before.items[j]

\* C17: an entry with a record and no existing record for its ref appends
\* one record that holds the entry's fields and reports ("add", ref, index
\* of the appended record); with an existing record it replaces that record
\* by defaults <- existing <- record and reports ("change", ref, index); no
\* other record changes and the length changes by one only on add.
C17_AddChange ==
  Accepted =>
    \A i \in EntryIds :
      LET e == call.data.v[i]
          before == call.trees[i]
          after == call.trees[i + 1]
          index == Found(before, e.ref)
          n == Len(before.items)
      IN  (e.t = "pair" /\ e.has) =>
            IF index = -1
            THEN /\ call.ret.v[i] = Outcome("add", e.ref, n)
                 /\ Len(after.items) = n + 1
                 /\ DeepMerge(after.items[n + 1], Filtered(e)) = after.items[n + 1]
                 /\ Others(before, after, n)
            ELSE /\ call.ret.v[i] = Outcome("change", e.ref, index)
                 /\ Len(after.items) = n
                 /\ after.items[index + 1] =
                      DeepMerge(DeepMerge(before.defaults, before.items[index + 1]), Filtered(e))
                 /\ Others(before, after, index)

\* C18: an entry without a record whose ref finds an existing record removes
\* exactly that record and reports ("delete", ref, index), whatever the
\* filter of the recipe.
C18_Delete ==
  Accepted =>
    \A i \in EntryIds :
      LET e == call.data.v[i]
          before == call.trees[i]
          after == call.trees[i + 1]
          index == Found(before, e.ref)
      IN  (e.t = "pair" /\ ~e.has /\ index # -1) =>
            /\ call.ret.v[i] = Outcome("delete", e.ref, index)
            /\ after.items = splice(before.items, index)

\* the entries whose processing raises an exception
Raises(e) == e.t = "null" \/ (call.recipe.filter = "keyed" /\ ~e.has)

WellFormed(data) == data.t = "arr" /\ \A i \in 1..Len(data.v) : data.v[i].t = "pair"
KnownRecipe == call.recipe.name # NoName

\* C20: for a permitted caller modify() returns null exactly when data is not
\* a sequence of object-or-pair-like entries, and [] for the empty sequence;
\* it returns null for an unknown recipe; and whenever it returns no list
\* the document tree is unchanged and no save is scheduled.
C20_NullOnBadShape ==
  (call.st = "returned" /\ call.op = "modify") =>
    /\ (KnownRecipe /\ Permitted(call.recipe.auth, call.auth)) =>
         (call.ret = RetNull <=> ~WellFormed(call.data))
    /\ (KnownRecipe /\ Permitted(call.recipe.auth, call.auth) /\ call.data.t = "arr"
        /\ call.data.v = <<>>) => call.ret = RetList(<<>>)
    /\ ~KnownRecipe => call.ret = RetNull
    /\ call.ret.t # "list" =>
         (Tree(db.items, db.defaults, db.D) = call.trees[1] /\ ~timex)

\* C21: a modify() with one entry {ref, record} whose record equals the
\* record stored for ref, called twice in a row, reports ("change", ref,
\* index) both times and leaves the collection as it was after the first and
\* after the second call.
Unchanged(e, tree) ==
  /\ e.t = "pair" /\ e.has /\ Found(tree, e.ref) # -1
  /\ DeepRec(e.record, DfltNested) = tree.items[Found(tree, e.ref) + 1]
Memory == "_memory_"
FileA == "A.json"
FileB == "B.json"
FileNames == {Memory, FileA, FileB}
DefaultDelay == 2                  \* cfg.delay || 1000

\* a configuration object, of the constructor or of the _.cfg section of a
\* file: "" , "unset" and 0 stand for a key the object does not have
Cfg(file, readOnly, delay) == [file |-> file, readOnly |-> readOnly, delay |-> delay]
NoCfg == Cfg("", "unset", 0)

\* a document tree: the document it was parsed from, the number of changes
\* made to it since, and its _.cfg section
TreeOf(doc, edits, c) == [doc |-> doc, edits |-> edits, cfg |-> c]
NoTree == TreeOf("undefined", 0, NoCfg)        \* this.db before the first load
EmptyTree == TreeOf("{}", 0, NoCfg)            \* data || {}

\* the content of a file: none (ENOENT), text JSON.parse rejects, or a tree
Missing == [t |-> "missing", tree |-> NoTree]
Garbage == [t |-> "garbage", tree |-> NoTree]
Json(tree) == [t |-> "json", tree |-> tree]

\* new jxjDB(cfg)
jxjDB(c) ==
  LET file == IF c.file # "" THEN c.file ELSE Memory
  IN  [file |-> file, inMemory |-> file = Memory, readOnly |-> c.readOnly = "true",
       delay |-> IF c.delay # 0 THEN c.delay ELSE DefaultDelay,
       tree |-> IF file = Memory THEN EmptyTree ELSE NoTree]

\* ((this.db['_']||{}).cfg||{}).mapByKey((v,k)=>this[k]=v)
mapByKey(store, c) ==
  [store EXCEPT !.file = IF c.file # "" THEN c.file ELSE @,
                !.readOnly = IF c.readOnly # "unset" THEN c.readOnly = "true" ELSE @,
                !.delay = IF c.delay # 0 THEN c.delay ELSE @]

\* clearTimeout(handle)
clearTimeout(timers, handle) == {t \in timers : t.id # handle}

\* the handle setTimeout returns: one no pending timer has and this.timex
\* does not hold
newHandle(timers, handle) ==
  CHOOSE h \in 1..(Cardinality(timers) + 2) :
    /\ h # handle /\ \A t \in timers : t.id # h
    /\ \A g \in 1..(h - 1) : g = handle \/ \E t \in timers : t.id = g

\* a changed() that starts a timer without cancelling the pending one
changedMut(e, handle, delay) ==
  LET h == newHandle(e.timers, handle)
  IN  [ev |-> [e EXCEPT !.timers = @ \cup {[id |-> h, due |-> e.now + delay]}],
       timex |-> h]

\* jxjDB.prototype.changed: the event loop and this.timex afterwards
changed(e, handle, delay) ==
  LET h == newHandle(e.timers, handle)
  IN  [ev |-> [e EXCEPT !.timers = clearTimeout(@, handle) \cup
                                     {[id |-> h, due |-> e.now + delay]}],
       timex |-> h]

\* changed() called n times in a row, as the loop of modify does
RECURSIVE changedTimes(_, _, _, _)
changedTimes(n, e, handle, delay) ==
  IF n = 0 THEN [ev |-> e, timex |-> handle]
  ELSE LET c == changed(e, handle, delay)
       IN  changedTimes(n - 1, c.ev, c.timex, delay)

\* jxjDB.prototype.save: the event loop afterwards; the tree is serialized
\* at once and fsp.writeFile completes later
save(store, e) ==
  IF store.inMemory \/ store.readOnly THEN e
  ELSE [e EXCEPT !.writes = Append(@, [file |-> store.file, data |-> store.tree])]

(***************************************************************************)
(* Specification SpecSave: one store, its timer and the writes of its file *)
(***************************************************************************)
MaxTime == 4         \* ticks of the clock in one behaviour
MaxMuts == 3         \* modify() and changed() calls in one behaviour

DocA == "docA"
DocB == "docB"
StoreCfgs == {Cfg(f, r, d) : f \in {"", FileA}, r \in {"unset", "true"}, d \in {0, 1}}
FileCfgs == {NoCfg, Cfg("", "false", 0), Cfg(FileB, "unset", 0)}
ContentsA == {Missing, Garbage} \cup {Json(TreeOf(DocA, 0, c)) : c \in FileCfgs}
FilesWith(a) ==
  [n \in FileNames |->
     CASE n = FileA -> a [] n = FileB -> Json(TreeOf(DocB, 0, NoCfg)) [] OTHER -> Missing]
\* a store constructed on a file is loaded before it is used
Loaded(store) ==
  IF store.inMemory THEN store ELSE [store EXCEPT !.tree = TreeOf(DocA, 0, NoCfg)]

PersistIdle(store) ==
  [st |-> "idle", marked |-> store.inMemory \/ store.readOnly,
   muts |-> <<>>, saves |-> <<>>, started |-> <<>>, loads |-> <<>>]
StartEv == [now |-> 0, timers |-> {}, reads |-> <<>>, writes |-> <<>>]
persistOthers ==
  <<lookup, cfg, stats, reqs, last, proc, listening, disk, secure, loads, hs, ac, site>>

InitSave ==
  /\ lookup = IdleLookup
  /\ cfg = [routes |-> <<>>, verbose |-> FALSE, target |-> NoTarget, secure |-> FALSE]
  /\ stats = IdleStats /\ reqs = <<>> /\ last = IdleLast
  /\ proc = Running /\ listening = FALSE
  /\ disk = IdleDisk /\ secure = IdleSecure /\ loads = <<>> /\ hs = IdleHs
  /\ ac = IdleAc /\ site = IdleSite
  /\ \E c \in StoreCfgs : db = Loaded(jxjDB(c)) /\ call = PersistIdle(jxjDB(c))
  /\ timex = 0
  /\ fs = FilesWith(Json(TreeOf(DocA, 0, NoCfg)))
  /\ ev = StartEv

\* the writes a save() started, for the record
Started(e, by) ==
  [i \in 1..(Len(e.writes) - Len(ev.writes)) |-> [at |-> ev.now, by |-> by, file |-> db.file]]

\* a modify() call that is accepted and processes n entries without an
\* exception: the tree changes and changed() is called for each entry
modifyAccepted(n) ==
  /\ db.tree # NoTree /\ Len(call.muts) < MaxMuts
  /\ LET c == changedTimes(n, ev, timex, db.delay)
     IN  ev' = c.ev /\ timex' = c.timex
  /\ db' = [db EXCEPT !.tree.edits = @ + 1]
  /\ call' = [call EXCEPT !.muts = Append(@, [at |-> ev.now, due |-> ev.now + db.delay])]
  /\ UNCHANGED <<fs, persistOthers>>

\* db.changed()
changedCall ==
  /\ Len(call.muts) < MaxMuts
  /\ LET c == changed(ev, timex, db.delay)
     IN  ev' = c.ev /\ timex' = c.timex
  /\ call' = [call EXCEPT !.muts = Append(@, [at |-> ev.now, due |-> ev.now + db.delay])]
  /\ UNCHANGED <<db, fs, persistOthers>>

\* the timer of changed() expires: ()=>{this.save();}
timeout ==
  \E t \in ev.timers :
    /\ t.due <= ev.now
    /\ LET e == save(db, [ev EXCEPT !.timers = @ \ {t}])
       IN  /\ ev' = e
           /\ call' = [call EXCEPT !.saves = Append(@, [at |-> ev.now, by |-> "timer"]),
                                   !.started = @ \o Started(e, "timer")]
    /\ UNCHANGED <<db, timex, fs, persistOthers>>

\* fsp.writeFile(this.file,data) completes
writeFileDone ==
  \E i \in 1..Len(ev.writes) :
    /\ fs' = [fs EXCEPT ![ev.writes[i].file] = Json(ev.writes[i].data)]
    /\ ev' = [ev EXCEPT !.writes = splice(@, i - 1)]
    /\ UNCHANGED <<db, call, timex, persistOthers>>

\* time passes when no timer is due
tick ==
  /\ ev.now < MaxTime
  /\ \A t \in ev.timers : t.due > ev.now
  /\ ev' = [ev EXCEPT !.now = @ + 1]
  /\ UNCHANGED <<db, call, timex, fs, persistOthers>>

NextSave ==
  \/ \E n \in 1..2 : modifyAccepted(n)
  \/ changedCall
  \/ timeout
  \/ writeFileDone
  \/ tick
SpecSave == InitSave /\ [][NextSave]_vars

(***************************************************************************)
(* Specification SpecLoad: one store, load() and save() on its files       *)
(***************************************************************************)
MaxLoads == 2        \* load() calls in one behaviour
MaxSaves == 2        \* save() calls in one behaviour

InitLoad ==
  /\ lookup = IdleLookup
  /\ cfg = [routes |-> <<>>, verbose |-> FALSE, target |-> NoTarget, secure |-> FALSE]
  /\ stats = IdleStats /\ reqs = <<>> /\ last = IdleLast
  /\ proc = Running /\ listening = FALSE
  /\ disk = IdleDisk /\ secure = IdleSecure /\ loads = <<>> /\ hs = IdleHs
  /\ ac = IdleAc /\ site = IdleSite
  /\ \E c \in StoreCfgs : db = jxjDB(c) /\ call = PersistIdle(jxjDB(c))
  /\ timex = 0
  /\ \E a \in ContentsA : fs = FilesWith(a)
  /\ ev = StartEv

\* db.save()
saveCall ==
  /\ Len(call.saves) < MaxSaves
  /\ LET e == save(db, ev)
     IN  /\ ev' = e
         /\ call' = [call EXCEPT !.saves = Append(@, [at |-> ev.now, by |-> "call"]),
                                 !.started = @ \o Started(e, "call")]
  /\ UNCHANGED <<db, timex, fs, persistOthers>>

\* db.load() up to its await: fsp.readFile(this.file) is started
loadCall ==
  /\ Len(call.loads) + Len(ev.reads) < MaxLoads
  /\ ev' = [ev EXCEPT !.reads = Append(@, [file |-> db.file, seen |-> Len(call.loads)])]
  /\ UNCHANGED <<db, call, timex, fs, persistOthers>>

\* the rest of load(), once readFile has completed or failed
loadResume ==
  \E i \in 1..Len(ev.reads) :
    LET r == ev.reads[i]
        content == fs[r.file]
        ok == content.t = "json"
        after == IF ok THEN mapByKey([db EXCEPT !.tree = content.tree], content.tree.cfg)
                 ELSE db
    IN  /\ db' = after
        /\ ev' = [ev EXCEPT !.reads = splice(@, i - 1)]
        /\ call' = [call EXCEPT !.loads = Append(@,
                      [file |-> r.file, seen |-> r.seen, content |-> content, ok |-> ok,
                       before |-> db, after |-> after, fs |-> fs])]
        /\ UNCHANGED <<timex, fs, persistOthers>>

NextLoad ==
  \/ saveCall
  \/ writeFileDone
  \/ loadCall
  \/ loadResume
SpecLoad == InitLoad /\ [][NextLoad]_vars

\* the save() calls the timer made and the writes they started
TimerSaves == SelectSeq(call.saves, LAMBDA s : s.by = "timer")
\* the i-th scheduling was not cancelled by the next one and its timer ran
Settled(i) ==
  IF i < Len(call.muts) THEN call.muts[i + 1].at > call.muts[i].due ELSE ev.timers = {}
\* every scheduling arrived before the timer of the one before it was due
OneBurst ==
  /\ call.muts # <<>>
  /\ \A i \in 1..(Len(call.muts) - 1) : call.muts[i + 1].at < call.muts[i].due

\* C22: the store has at most one pending timer, the one this.timex holds,
\* due one delay after the latest mutation; a mutation starts no write; the
\* timer of a mutation runs save() once, when it is due, unless a later
\* mutation cancelled it; so the mutations of one burst cause exactly one
\* save(), one delay after the last of them.
C22_OneTimer ==
  /\ Cardinality(ev.timers) <= 1
  /\ \A t \in ev.timers :
       /\ t.id = timex /\ call.muts # <<>>
       /\ t.due = call.muts[Len(call.muts)].due
  /\ Len(call.started) <= Len(call.saves)
  /\ \A i \in 1..Len(call.muts) :
       Settled(i) =>
         Cardinality({k \in 1..Len(TimerSaves) : TimerSaves[k].at = call.muts[i].due}) = 1
  /\ \A k \in 1..Len(TimerSaves) :
       \E i \in 1..Len(call.muts) :
         /\ call.muts[i].due = TimerSaves[k].at
         /\ i = Len(call.muts) \/ call.muts[i + 1].at >= TimerSaves[k].at
  /\ (OneBurst /\ ev.timers = {}) =>
       TimerSaves = <<[at |-> call.muts[Len(call.muts)].due, by |-> "timer"]>>

\* three mutations at different times in one burst were saved once
C22_Witness ==
  /\ OneBurst /\ ev.timers = {} /\ Len(call.muts) = 3
  /\ call.muts[1].at < call.muts[2].at /\ call.muts[2].at < call.muts[3].at
  /\ Len(call.saves) = 1 /\ Len(call.started) = 1

\* C23: no two writes of the same file are in progress at the same time.
C23_NoOverlap ==
  \A i, j \in 1..Len(ev.writes) : ev.writes[i].file = ev.writes[j].file => i = j

\* C24: a store constructed in memory or read-only never starts a write of
\* a file, whatever load() and save() calls are made on it.
C24_NeverWrites == call.marked => (call.started = <<>> /\ ev.writes = <<>>)

\* the settings of a store
Settings(store) == [file |-> store.file, inMemory |-> store.inMemory,
                    readOnly |-> store.readOnly, delay |-> store.delay]

\* C25: a load() that reads and parses its file makes the content of the
\* file the tree; a load() that fails leaves the store as it was; and a
\* load() called after an earlier successful one, the file that one read
\* being unchanged, reads the same file and ends with the same tree and the
\* same settings.
C25_LoadIdempotent ==
  \A i \in 1..Len(call.loads) :
    LET l == call.loads[i]
    IN  /\ l.ok => l.after.tree = l.content.tree
        /\ ~l.ok => l.after = l.before
        /\ (/\ i > 1 /\ l.seen >= i - 1 /\ call.loads[i - 1].ok
            /\ l.fs[call.loads[i - 1].file] = call.loads[i - 1].content) =>
             /\ l.file = call.loads[i - 1].file /\ l.ok
             /\ l.after.tree = call.loads[i - 1].after.tree
             /\ Settings(l.after) = Settings(call.loads[i - 1].after)

(***************************************************************************)
(* The data and file middleware (LiteData.js, LiteFile.js)                 *)
(*                                                                         *)
(* Both look their recipe up in the same store.  What a middleware does    *)
(* with a request is [t, code, evaluated, modified, touched]: rply.json,   *)
(* next() or next(code), and whether the recipe was evaluated, the store   *)
(* was modified and a file under the recipe's root was read or written.    *)
(***************************************************************************)
Replied(evaluated, modified, touched) ==
  [t |-> "json", code |-> 200, evaluated |-> evaluated, modified |-> modified,
   touched |-> touched]
NextHandler ==
  [t |-> "next", code |-> 0, evaluated |-> FALSE, modified |-> FALSE, touched |-> FALSE]
NextError(code) ==
  [t |-> "error", code |-> code, evaluated |-> FALSE, modified |-> FALSE, touched |-> FALSE]

\* dataMiddleware: db.inquire for GET, db.cache for POST, on a recipe that
\* declares no xjson, with a well formed body
dataMiddleware(store, method, recipeName, member) ==
  LET recipe == lookupRecipe(store, recipeName)
  IN  IF method \notin {"GET", "POST"} THEN NextError(501)
      ELSE IF recipe.name = NoName THEN NextHandler
      ELSE IF ~authorizationCheck(recipe.auth, member) THEN NextError(401)
      ELSE IF method = "GET" THEN Replied(TRUE, FALSE, FALSE)
      ELSE Replied(TRUE, TRUE, FALSE)

\* fileMiddleware: list or download for GET, upload for POST, of files that
\* exist
fileMiddleware(store, method, recipeName, member) ==
  LET recipe == lookupRecipe(store, recipeName)
  IN  IF recipe.name = NoName THEN NextHandler
      ELSE IF ~recipe.root THEN NextError(500)
      ELSE IF Truthy(recipe.auth) /\ ~authorizationCheck(recipe.auth, member)
      THEN NextError(401)
      ELSE IF method \in {"GET", "POST"} THEN Replied(FALSE, FALSE, TRUE)
      ELSE NextError(501)

(***************************************************************************)
(* Specification SpecMiddleware: one data or file request                  *)
(***************************************************************************)
Methods == {"GET", "POST", "PUT"}
Planes == {"data", "file"}
MwRecipes ==
  {[name |-> NameR, auth |-> a, root |-> r] :
     a \in {JsUndefined, JsArray(<<(<<"a">>)>>), JsString(<<>>)}, r \in BOOLEAN}
MwMembers == {JsString(<<>>), JsArray(<<(<<"a">>)>>), JsArray(<<(<<"b">>)>>)}
Uploaded == Json(TreeOf("upload", 0, NoCfg))
MwIdle ==
  [st |-> "idle", plane |-> "none", method |-> "GET", name |-> NoName,
   member |-> JsString(<<>>), out |-> NextHandler, db0 |-> IdleDb, fs0 |-> IdleFs]

InitMiddleware ==
  /\ lookup = IdleLookup
  /\ cfg = [routes |-> <<>>, verbose |-> FALSE, target |-> NoTarget, secure |-> FALSE]
  /\ stats = IdleStats /\ reqs = <<>> /\ last = IdleLast
  /\ proc = Running /\ listening = FALSE
  /\ disk = IdleDisk /\ secure = IdleSecure /\ loads = <<>> /\ hs = IdleHs
  /\ ac = IdleAc /\ site = IdleSite /\ ev = IdleEv /\ timex = FALSE
  /\ \E r \in MwRecipes : db = [recipes |-> <<r>>, items |-> <<>>]
  /\ fs = FilesWith(Missing)
  /\ call = MwIdle

\* one request through the middleware of its plane, and what it leaves
request(plane, method, recipeName, member) ==
  /\ call.st = "idle"
  /\ LET out == IF plane = "data" THEN dataMiddleware(db, method, recipeName, member)
                ELSE fileMiddleware(db, method, recipeName, member)
     IN  /\ call' = [call EXCEPT !.st = "done", !.plane = plane, !.method = method,
                                 !.name = recipeName, !.member = member, !.out = out,
                                 !.db0 = db, !.fs0 = fs]
         /\ db' = IF out.modified THEN [db EXCEPT !.items = Append(@, JsRecord(1))] ELSE db
         /\ timex' = out.modified
         /\ fs' = IF out.touched /\ method = "POST" THEN [fs EXCEPT ![FileA] = Uploaded]
                  ELSE fs
  /\ UNCHANGED <<lookup, cfg, stats, reqs, last, proc, listening, disk, secure, loads, hs,
                 ac, site, ev>>

NextMiddleware ==
  \E plane \in Planes, method \in Methods, n \in {NameR, NameU}, member \in MwMembers :
    request(plane, method, n, member)
SpecMiddleware == InitMiddleware /\ [][NextMiddleware]_vars

\* C26: a GET or POST on the data or file plane whose keyword is unknown is
\* passed to the next handler without an error; one whose recipe exists and
\* whose caller's groups do not satisfy the recipe's auth ends in
\* next(401), the recipe is not evaluated and neither the store nor a file
\* is touched.
C26_UnknownOrRefused ==
  (call.st = "done" /\ call.method \in {"GET", "POST"}) =>
    LET recipe == lookupRecipe(call.db0, call.name)
    IN  /\ recipe.name = NoName => call.out = NextHandler
        /\ (recipe.name # NoName /\ ~Permitted(recipe.auth, call.member)) =>
             /\ call.out = NextError(401)
             /\ db = call.db0 /\ fs = call.fs0 /\ ~timex

(***************************************************************************)
(* Authorization of a request (hbLiteApp.js) and the administrative        *)
(* actions (LiteAction.js)                                                 *)
(*                                                                         *)
(* Here site is the context of one request: which of initMiddleware,       *)
(* noauthMiddleware and authMiddleware set rqst.hb.auth last, what the     *)
(* authentication found, which of the two actionMiddleware sources the     *)
(* site runs, and what the actions act on: the scribe mask and the number  *)
(* of load() and loadSecrets() calls made.                                 *)
(***************************************************************************)
ReloadGroup == <<"r", "e", "l", "o", "a", "d">>
RenewGroup == <<"r", "e", "n", "e", "w">>
ScribeGroup == <<"s", "c", "r", "i", "b", "e">>
ServerGroup == <<"s", "e", "r", "v", "e", "r">>
Comma == <<",">>

\* authorize of an authenticated request, as the auth result defines it:
\* authorize(allowedGroups, memberGroups = user.member, isAuthenticated)
authorizeOfResult(allowed, member, isAuthenticated) ==
  /\ isAuthenticated
  /\ \/ allowed.t = "undef"
     \/ Admin \in GroupsOf(member)
     \/ GroupsOf(member) \cap GroupsOf(allowed) # {}

\* a default that lets a request without a list through
authorizeDefaultMut(allowed) == allowed.t = "undef"

\* authorize: ()=>false of initMiddleware and noauthMiddleware
authorizeDefault(allowed) == FALSE

\* rqst.hb.auth.authorize(allowed)
authorize(s, allowed) ==
  IF s.mode = "auth" THEN authorizeOfResult(allowed, s.member, s.authenticated)
  ELSE authorizeDefault(allowed)

\* /\d{1,3}.\d{1,3}.\d{1,3}.\d{1,3}(?::\d{2,5})?/.test(host): four runs of
\* one to three digits with any character between them, anywhere in host
digitsAt(h, i, n) == i + n - 1 <= Len(h) /\ \A k \in i..(i + n - 1) : h[k] \in Digits
localAddress(h) ==
  \E i \in 1..Len(h) : \E a, b, c, d \in 1..3 :
    /\ digitsAt(h, i, a) /\ digitsAt(h, i + a + 1, b)
    /\ digitsAt(h, i + a + b + 2, c) /\ digitsAt(h, i + a + b + c + 3, d)

\* Scribe.prototype.maskLevel(lvl) of a scribe without parent
Levels == {"trace", "log"}
maskLevel(mask, lvl) == IF lvl \in Levels THEN lvl ELSE mask

\* what the variant asks of the caller of an action
allowedFor(variant, action) ==
  IF variant = "bin"
  THEN JsArray(<<Admin, CASE action = "reload" -> ReloadGroup
                          [] action = "renew" -> RenewGroup
                          [] OTHER -> ScribeGroup>>)
  ELSE JsString(Admin \o Comma \o ServerGroup)
gate(s, variant, action, host) ==
  IF variant = "part" /\ action = "renew" THEN localAddress(host)
  ELSE authorize(s, allowedFor(variant, action))

\* actionMiddleware for GET /@scribe/<level>, POST /@reload/<name> and
\* POST /@renew: the reply and the site afterwards
actionMiddleware(s, action, host, arg) ==
  IF ~gate(s, s.variant, action, host) THEN [out |-> NextError(401), site |-> s]
  ELSE CASE action = "scribe" ->
              [out |-> Replied(FALSE, FALSE, FALSE),
               site |-> [s EXCEPT !.mask = maskLevel(@, arg)]]
         [] action = "reload" ->
              [out |-> Replied(FALSE, FALSE, FALSE),
               site |-> IF arg = "site" THEN [s EXCEPT !.reloads = @ + 1] ELSE s]
         [] OTHER ->
              [out |-> Replied(FALSE, FALSE, FALSE), site |-> [s EXCEPT !.renews = @ + 1]]

(***************************************************************************)
(* Specification SpecAction: one authorize() call or one action request    *)
(***************************************************************************)
Callers ==
  {JsString(<<>>), JsArray(<<(<<"b">>)>>), JsArray(<<Admin>>), JsArray(<<ReloadGroup>>),
   JsArray(<<RenewGroup>>), JsArray(<<ScribeGroup>>), JsArray(<<ServerGroup>>)}
Contexts ==
  {[mode |-> "init", authenticated |-> FALSE, member |-> JsString(<<>>)],
   [mode |-> "noauth", authenticated |-> FALSE, member |-> JsString(<<>>)]}
  \cup {[mode |-> "auth", authenticated |-> a, member |-> m] : a \in BOOLEAN, m \in Callers}
Sites ==
  {[mode |-> c.mode, authenticated |-> c.authenticated, member |-> c.member,
    variant |-> v, mask |-> "log", reloads |-> 0, renews |-> 0] :
     c \in Contexts, v \in {"bin", "part"}}
AllowedArgs ==
  {JsUndefined, JsArray(<<(<<"b">>)>>), JsArray(<<Admin, ReloadGroup>>),
   JsString(Admin \o Comma \o ServerGroup)}
HostAddress == <<"1", ".", "2", ".", "3", ".", "4">>
HostName == <<"a", ".", "b">>
ActionRequests ==
  {<<"scribe", h, l>> : h \in {HostAddress, HostName}, l \in {"trace", "none"}}
  \cup {<<"reload", h, n>> : h \in {HostAddress, HostName}, n \in {"site", "none"}}
  \cup {<<"renew", h, "none">> : h \in {HostAddress, HostName}}
ActionIdle ==
  [st |-> "idle", op |-> "none", allowed |-> JsUndefined, res |-> FALSE, action |-> "none",
   host |-> <<>>, out |-> NextHandler, site0 |-> IdleSite]

InitAction ==
  /\ lookup = IdleLookup
  /\ cfg = [routes |-> <<>>, verbose |-> FALSE, target |-> NoTarget, secure |-> FALSE]
  /\ stats = IdleStats /\ reqs = <<>> /\ last = IdleLast
  /\ proc = Running /\ listening = FALSE
  /\ disk = IdleDisk /\ secure = IdleSecure /\ loads = <<>> /\ hs = IdleHs
  /\ ac = IdleAc /\ ev = IdleEv /\ timex = FALSE /\ db = IdleDb /\ fs = IdleFs
  /\ site \in Sites
  /\ call = ActionIdle

actionOthers ==
  <<lookup, cfg, stats, reqs, last, proc, listening, disk, secure, loads, hs, ac, ev, timex,
    db, fs>>

\* rqst.hb.auth.authorize(allowed)
authorizeCall(allowed) ==
  /\ call.st = "idle"
  /\ call' = [call EXCEPT !.st = "done", !.op = "authorize", !.allowed = allowed,
                          !.res = authorize(site, allowed), !.site0 = site]
  /\ UNCHANGED <<site, actionOthers>>

\* one request for an administrative action
actionRequest(action, host, arg) ==
  /\ call.st = "idle"
  /\ LET r == actionMiddleware(site, action, host, arg)
     IN  /\ site' = r.site
         /\ call' = [call EXCEPT !.st = "done", !.op = "action", !.action = action,
                                 !.host = host, !.out = r.out, !.site0 = site]
  /\ UNCHANGED actionOthers

NextAction ==
  \/ \E allowed \in AllowedArgs : authorizeCall(allowed)
  \/ \E r \in ActionRequests : actionRequest(r[1], r[2], r[3])
SpecAction == InitAction /\ [][NextAction]_vars

\* the group the documentation names for an action (the variant of the
\* unnamed source asks for 'server' where it asks for a group)
GroupOf(variant, action) ==
  IF variant = "part" /\ action # "renew" THEN ServerGroup
  ELSE CASE action = "reload" -> ReloadGroup
         [] action = "renew" -> RenewGroup
         [] OTHER -> ScribeGroup
\* the caller is authenticated and in admin or in the group of the action
MayAct(s, action) ==
  /\ s.mode = "auth" /\ s.authenticated
  /\ GroupsOf(s.member) \cap {Admin, GroupOf(s.variant, action)} # {}

\* C27: a reload, renew or scribe request of a caller that is not
\* authenticated, or is in neither admin nor the group of the action, ends
\* in next(401) and leaves the stores, the secrets and the scribe mask as
\* they were.
C27_AdminActions ==
  (call.st = "done" /\ call.op = "action" /\ ~MayAct(call.site0, call.action)) =>
    (call.out = NextError(401) /\ site = call.site0)

MaxSpec == 4         \* characters of a download spec or an upload file name
MaxBackup == 2       \* characters of an upload backup name

Dot == "."
Slash == "/"
DotDot == <<Dot, Dot>>

\* a name whose dots are kept as the client sent them
replaceDotDotMut(s) == s

\* s.replace(/\.\./g,''): the matches are found left to right in s and do
\* not overlap; what the removal brings together is not searched again
RECURSIVE replaceDotDot(_)
replaceDotDot(s) ==
  IF Len(s) < 2 THEN s
  ELSE IF s[1] = Dot /\ s[2] = Dot THEN replaceDotDot(SubSeq(s, 3, Len(s)))
  ELSE <<s[1]>> \o replaceDotDot(Tail(s))

\* args.join('/')
RECURSIVE joinSlash(_)
joinSlash(args) ==
  IF Len(args) = 0 THEN <<>>
  ELSE IF Len(args) = 1 THEN args[1]
  ELSE args[1] \o <<Slash>> \o joinSlash(Tail(args))

\* path.resolve's normalisation of the segments of an absolute path: empty
\* and '.' segments vanish, '..' removes the segment before it
RECURSIVE normalize(_, _)
normalize(segs, out) ==
  IF Len(segs) = 0 THEN out
  ELSE IF segs[1] = <<>> \/ segs[1] = <<Dot>> THEN normalize(Tail(segs), out)
  ELSE IF segs[1] = DotDot
       THEN normalize(Tail(segs), IF Len(out) = 0 THEN out ELSE SubSeq(out, 1, Len(out) - 1))
  ELSE normalize(Tail(segs), Append(out, segs[1]))

\* process.cwd()
Cwd == <<Slash, "c">>
\* path.resolve(p): a relative p is taken from the working directory
pathResolve(p) ==
  IF Len(p) > 0 /\ p[1] = Slash THEN normalize(split(p, Slash), <<>>)
  ELSE normalize(split(Cwd \o <<Slash>> \o p, Slash), <<>>)

\* resolvePath = (...args)=>path.resolve(args.join('/'))
resolvePath(args) == pathResolve(joinSlash(args))

\* let path = resolvePath(recipe.root,spec.replace(/\.\./g,''))
downloadPath(recipe, spec) == resolvePath(<<recipe.root, replaceDotDot(spec)>>)

\* resolvePath(recipe.root,recipe.folders[folder],name.replace(/\.\./g,''))
uploadPath(recipe, folder, name) ==
  resolvePath(<<recipe.root, recipe.folders[folder], replaceDotDot(name)>>)

(***************************************************************************)
(* Specification SpecFile: downloads and uploads of one recipe             *)
(***************************************************************************)
PathChars == {Dot, Slash, "a"}
FileSpecs == StringsUpTo(PathChars, MaxSpec)
Backups == StringsUpTo(PathChars, MaxBackup)
FolderDocs == "docs"
FileRecipes ==
  {[root |-> r, folders |-> [docs |-> f]] : r \in {<<Slash, "r">>, <<"r">>},
                                             f \in {<<"d">>, <<>>}}
FileIdle(recipe) ==
  [st |-> "idle", op |-> "none", recipe |-> recipe, given |-> <<>>, stripped |-> <<>>,
   touched |-> <<>>, out |-> "none"]

InitFile ==
  /\ lookup = IdleLookup
  /\ cfg = [routes |-> <<>>, verbose |-> FALSE, target |-> NoTarget, secure |-> FALSE]
  /\ stats = IdleStats /\ reqs = <<>> /\ last = IdleLast
  /\ proc = Running /\ listening = FALSE
  /\ disk = IdleDisk /\ secure = IdleSecure /\ loads = <<>> /\ hs = IdleHs
  /\ ac = IdleAc /\ ev = IdleEv /\ timex = FALSE /\ db = IdleDb /\ fs = IdleFs
  /\ site = IdleSite
  /\ \E recipe \in FileRecipes : call = FileIdle(recipe)

fileOthers ==
  <<lookup, cfg, stats, reqs, last, proc, listening, disk, secure, loads, hs, ac, ev, timex,
    db, fs, site>>

\* download(recipe, spec): fsp.stat(path), then the file is read or sent;
\* isFile is what the filesystem holds at path
download(spec, isFile) ==
  /\ call.st = "idle"
  /\ spec # <<>>
  /\ call' = [call EXCEPT !.st = "done", !.op = "download", !.given = <<spec>>,
                          !.stripped = <<replaceDotDot(spec)>>,
                          !.touched = <<downloadPath(call.recipe, spec)>>,
                          !.out = IF isFile THEN "file" ELSE "400"]
  /\ UNCHANGED fileOthers

\* upload(recipe, [{folder, name, backup, contents}]): the file is written,
\* after a copy to backup when a backup is named and the file exists
upload(folder, name, backup, exists) ==
  /\ call.st = "idle"
  /\ IF folder = FolderDocs
     THEN call' = [call EXCEPT
            !.st = "done", !.op = "upload",
            !.given = <<name, backup>>,
            !.stripped = IF backup # <<>> /\ exists
                         THEN <<replaceDotDot(name), replaceDotDot(backup)>>
                         ELSE <<replaceDotDot(name)>>,
            !.touched = IF backup # <<>> /\ exists
                        THEN <<uploadPath(call.recipe, folder, name),
                               uploadPath(call.recipe, folder, backup)>>
                        ELSE <<uploadPath(call.recipe, folder, name)>>,
            !.out = "true"]
     ELSE call' = [call EXCEPT !.st = "done", !.op = "upload", !.given = <<name, backup>>,
                               !.out = "false"]
  /\ UNCHANGED fileOthers

NextFile ==
  \/ \E spec \in FileSpecs, isFile \in BOOLEAN : download(spec, isFile)
  \/ \E folder \in {FolderDocs, "other"}, name \in FileSpecs, backup \in Backups,
        exists \in BOOLEAN : upload(folder, name, backup, exists)
SpecFile == InitFile /\ [][NextFile]_vars

\* C28: every path a download or an upload reads or writes lies inside the
\* recipe's root, and no '..' is left in a name after the stripping
HasDotDot(s) == \E i \in 1..(Len(s) - 1) : s[i] = Dot /\ s[i + 1] = Dot
Inside(root, p) ==
  LET r == pathResolve(root)
  IN  Len(p) >= Len(r) /\ SubSeq(p, 1, Len(r)) = r
C28_Sandboxed ==
  /\ \A i \in 1..Len(call.stripped) : ~HasDotDot(call.stripped[i])
  /\ \A i \in 1..Len(call.touched) : Inside(call.recipe.root, call.touched[i])
\* an upload under an absolute name that names ".." as backup of an
\* existing file
C28_Witness ==
  /\ call.st = "done" /\ call.op = "upload"
  /\ Len(call.touched) = 2
  /\ call.given[1] = <<Slash, "a">>
  /\ call.given[2] = DotDot

(***************************************************************************)
(* The error handler of a site (hbLiteApp.js) and emsg (hbLite.js)         *)
(*                                                                         *)
(* A JSON body is [envelope, code, msg]: envelope tells where code and msg *)
(* are, "nested" for {error: {code, msg}}, "flag" for {error: true, code,  *)
(* msg} and "flat" for {code, msg}.                                        *)
(***************************************************************************)
MaxErrs == 2         \* failures handled by one site in one behaviour

UnknownError == "UNKNOWN ERROR"
\* const errs = {400: ..., 501: ...}
errs(c) ==
  CASE c = 400 -> "Bad Request"
    [] c = 401 -> "NOT authorized!"
    [] c = 403 -> "Forbidden"
    [] c = 404 -> "File NOT found!"
    [] c = 500 -> "Internal Server Error"
    [] c = 501 -> "Not supported"
    [] OTHER -> ""
Body(envelope, code, msg) == [envelope |-> envelope, code |-> code, msg |-> msg]

\* emsg(c) of the server: hbLite.js builds {code, msg}, the unnamed source
\* of the server builds {error: true, code, msg}
emsg(variant, c) ==
  Body(IF variant = "bin" THEN "flat" ELSE "flag", c,
       IF errs(c) # "" THEN errs(c) ELSE UnknownError)

\* a handler that answers every failure with status 500
defaultErrorHandlerMut(variant, err) == [status |-> 500, body |-> emsg(variant, 500)]

\* defaultErrorHandlerMiddleware(err, ...): err is a number, or an Error
\* object (0 here), which has no code
defaultErrorHandler(variant, err) ==
  IF err # 0 THEN [status |-> emsg(variant, err).code, body |-> emsg(variant, err)]
  ELSE [status |-> 500, body |-> emsg(variant, 500)]

(***************************************************************************)
(* Specification SpecError: the failures a site's error handler receives   *)
(***************************************************************************)
Failures == {0, 400, 401, 403, 404, 418, 500, 501}
ErrorIdle(variant) ==
  [st |-> "idle", variant |-> variant, errs |-> <<>>, resp |-> [status |-> 0,
   body |-> Body("flat", 0, "")], errors |-> 0]

InitError ==
  /\ lookup = IdleLookup
  /\ cfg = [routes |-> <<>>, verbose |-> FALSE, target |-> NoTarget, secure |-> FALSE]
  /\ stats = IdleStats /\ reqs = <<>> /\ last = IdleLast
  /\ proc = Running /\ listening = FALSE
  /\ disk = IdleDisk /\ secure = IdleSecure /\ loads = <<>> /\ hs = IdleHs
  /\ ac = IdleAc /\ ev = IdleEv /\ timex = FALSE /\ db = IdleDb /\ fs = IdleFs
  /\ site = IdleSite
  /\ \E v \in {"bin", "part"} : call = ErrorIdle(v)

\* next(err) reaches the error handler: the response, and Stat 'errors'
errorHandler(err) ==
  /\ Len(call.errs) < MaxErrs
  /\ call' = [call EXCEPT !.st = "done", !.errs = Append(@, err),
                          !.resp = defaultErrorHandler(call.variant, err),
                          !.errors = @ + 1]
  /\ UNCHANGED <<lookup, cfg, stats, reqs, last, proc, listening, disk, secure, loads, hs,
                 ac, db, timex, fs, ev, site>>

NextFailure == \E err \in Failures : errorHandler(err)
SpecError == InitError /\ [][NextFailure]_vars

\* C29: a numeric failure is answered with that number as status and with
\* the body {error: {code, msg}}, msg from the table for the listed codes
LastErr == call.errs[Len(call.errs)]
Numeric(err) == err # 0
Listed == {400, 401, 403, 404, 500, 501}
C29_Envelope ==
  (call.st = "done" /\ Numeric(LastErr)) =>
    /\ call.resp.status = LastErr
    /\ call.resp.body.envelope = "nested"
    /\ call.resp.body.code = LastErr
    /\ LastErr \in Listed => call.resp.body.msg = errs(LastErr)

(***************************************************************************)
(* Authentication: Auth.prototype.authenticate (hbLiteAuth.js), the result *)
(* the auth middleware of a site expects (authenticate(header, lookup),    *)
(* with error, jwt) and the auth middleware itself (hbLiteApp.js).         *)
(***************************************************************************)
MaxNow == 4          \* latest time of a request, in seconds
Lifetime == 2        \* the configured token lifetime, in seconds

Undef == "undefined"
NoCode == [code |-> Undef, iat |-> 0, exp |-> 0]
NoCredentials == [hash |-> Undef, code |-> NoCode]
\* {}: what a look-up of an unknown name gives
EmptyUser ==
  [username |-> Undef, status |-> Undef, member |-> <<>>, hash |-> Undef,
   credentials |-> NoCredentials]
\* bcrypt's hash of a password
Hash(pw) == <<"bcrypt", pw>>
User(name, status, member, pw, code) ==
  [username |-> name, status |-> status, member |-> member, hash |-> Hash(pw),
   credentials |-> [hash |-> Hash(pw), code |-> code]]

\* bcrypt.compare(pw, hash): rejects unless both are strings
compare(pw, hash) ==
  IF pw = Undef \/ hash = Undef THEN "rejected"
  ELSE IF hash = Hash(pw) THEN "true" ELSE "false"

\* the users collection: this.credentials.collection('users').get(name, {})
\* and (u)=>self.db.users.query('userByUsername',{username: u},true)
lookupUser(users, name) == IF name \in DOMAIN users THEN users[name] ELSE EmptyUser

\* the Authorization header: undefined, or '<method> <b64>' where b64 holds
\* 'user:pw' (pw undefined without ':'), or 'Bearer <token>'
AuthHeader(method, b64, user, pw, token) ==
  [method |-> method, b64 |-> b64, user |-> user, pw |-> pw, token |-> token]
NoToken == [payload |-> EmptyUser, key |-> Undef, iat |-> 0, exp |-> 0]

\* what a user of the result sees of the user: a name, or a record
UserName(name) == [kind |-> "name", username |-> name, rec |-> EmptyUser]
UserRecord(rec) == [kind |-> "record", username |-> rec.username, rec |-> rec]
AuthResult(settled, user, authenticated, error, msg, jwt, session) ==
  [settled |-> settled, user |-> user, authenticated |-> authenticated, error |-> error,
   msg |-> msg, jwt |-> jwt, session |-> session]
Rejected == AuthResult("rejected", UserName(""), FALSE, Undef, "", NoToken, "")

\* Auth.prototype.basic(header): new Buffer(undefined,'base64') throws
basic(header) ==
  IF header.method = "basic"
  THEN IF header.b64 THEN [threw |-> FALSE, user |-> header.user, pw |-> header.pw]
       ELSE [threw |-> TRUE, user |-> "", pw |-> ""]
  ELSE [threw |-> FALSE, user |-> "", pw |-> ""]

\* a check that lets every known user through
statusCheckMut(user) == user # EmptyUser

\* if (user.status!=='ACTIVE') return ... authenticated:false
statusCheck(user) == user.status = "ACTIVE"

\* let info = { user: login.user, groups: user.member||[], session: {} }
info(login, user) == UserName(login.user)

\* Auth.prototype.authenticate(who) of hbLiteAuth.js; checkSession is called
\* without the password, so chk.valid is never true.  The result has msg
\* and session, and neither error nor jwt.
authenticate(users, header) ==
  LET login == IF header.method = "none" THEN [threw |-> FALSE, user |-> "", pw |-> ""]
               ELSE basic(header)
      user == lookupUser(users, login.user)
      cmp == compare(login.pw, user.hash)
  IN  IF login.threw THEN Rejected
      ELSE IF ~statusCheck(user)
      THEN AuthResult("resolved", info(login, user), FALSE, Undef, "Inactive User!",
                      NoToken, "")
      ELSE IF cmp = "rejected" THEN Rejected
      ELSE AuthResult("resolved", info(login, user), cmp = "true", Undef,
                      IF cmp = "true" THEN "User Authenticated" ELSE "Authentication Failed!",
                      NoToken, IF cmp = "true" THEN login.user ELSE "")

(***************************************************************************)
(* The authentication the site's middleware is written for: the result of  *)
(* authenticate(header, userLookup) with error and jwt.  A token is its    *)
(* payload, the key that signed it and its times.                          *)
(***************************************************************************)
Secret == "secret"
InvalidToken == "invalid token"
ExpiredToken == "expired, please log in again"

\* create(payload, secret) at time now, and verify(token, secret)
create(payload, key, now) == [payload |-> payload, key |-> key, iat |-> now, exp |-> 0]
verify(token, key) == token.key = key
\* expiry: the explicit expiry claim, or issued-at plus the lifetime
expired(token, now) ==
  IF token.exp # 0 THEN now >= token.exp ELSE now >= token.iat + Lifetime

\* checkCode(candidate, storedChallenge)
checkCode(candidate, stored, now) ==
  /\ stored.code # Undef
  /\ candidate = stored.code
  /\ now < stored.iat + stored.exp

\* the record without its credentials sub-tree
sanitize(rec) == [rec EXCEPT !.hash = Undef, !.credentials = NoCredentials]

\* a result that embeds the record as it was looked up
acceptBasicMut(rec, now) ==
  AuthResult("resolved", UserRecord(rec), TRUE, "", "", create(rec, Secret, now), "")

\* Basic path, on acceptance: strip credentials and mint a token
acceptBasic(rec, now) ==
  AuthResult("resolved", UserRecord(sanitize(rec)), TRUE, "", "",
             create(sanitize(rec), Secret, now), "")

Failed(error) == AuthResult("resolved", UserName(""), FALSE, error, "", NoToken, "")

\* a Bearer path that takes the payload without looking at the signature
bearerMut(token, now) ==
  IF expired(token, now) THEN Failed(ExpiredToken)
  ELSE AuthResult("resolved", UserRecord(token.payload), TRUE, "", "", token, "")

\* Bearer path
bearer(token, now) ==
  IF ~verify(token, Secret) THEN Failed(InvalidToken)
  ELSE IF expired(token, now) THEN Failed(ExpiredToken)
  ELSE AuthResult("resolved", UserRecord(token.payload), TRUE, "", "", token, "")

\* authenticate(header, userLookup) -> AuthResult
authenticateHeader(users, header, now) ==
  LET rec == lookupUser(users, header.user)
  IN  CASE header.method = "bearer" -> bearer(header.token, now)
        [] header.method = "basic" ->
             IF ~header.b64 \/ header.pw = Undef THEN Failed("malformed header")
             ELSE IF rec = EmptyUser \/ (rec.status # Undef /\ rec.status # "ACTIVE")
             THEN Failed("unknown or inactive user")
             ELSE IF \/ checkCode(header.pw, rec.credentials.code, now)
                     \/ compare(header.pw, rec.credentials.hash) = "true"
             THEN acceptBasic(rec, now)
             ELSE Failed("authentication failed")
        [] OTHER -> Failed("unsupported method")

\* authMiddleware(rqst, rply, next): a is what authenticate settled with
authMiddleware(a) ==
  IF a.settled = "rejected"
  THEN [auth |-> "unset", sent |-> FALSE, reply |-> "none", next |-> FALSE, logged |-> TRUE]
  ELSE [auth |-> "a", sent |-> a.authenticated,
        reply |-> IF a.error # Undef /\ a.error # "" THEN "401" ELSE "none",
        next |-> ~(a.error # Undef /\ a.error # ""), logged |-> FALSE]

(***************************************************************************)
(* Specification SpecAuthn: requests that reach the auth middleware        *)
(***************************************************************************)
Good == "good"
Bad == "bad"
Code1 == "1234"
UsersDB ==
  [alice |-> User("alice", "ACTIVE", <<"users">>, Good, [code |-> Code1, iat |-> 0, exp |-> 2]),
   pat |-> User("pat", "PENDING", <<"users">>, Good, [code |-> Code1, iat |-> 0, exp |-> 4]),
   ian |-> User("ian", "INACTIVE", <<"users">>, Good, [code |-> Code1, iat |-> 0, exp |-> 4])]
Names == {"alice", "pat", "ian", "nobody"}
Passwords == {Good, Bad, Code1, Undef}
ForgedAdmin == sanitize(User("alice", "ACTIVE", <<"admin">>, Good, NoCode))
BearerTokens ==
  {[payload |-> p, key |-> k, iat |-> i, exp |-> e] :
     p \in {sanitize(UsersDB["alice"]), ForgedAdmin}, k \in {Secret, "other"},
     i \in 0..MaxNow, e \in {0, 3}}
AuthHeaders ==
  {AuthHeader("none", FALSE, "", "", NoToken), AuthHeader("basic", FALSE, "", "", NoToken),
   AuthHeader("digest", TRUE, "", "", NoToken)}
  \cup {AuthHeader("basic", TRUE, u, pw, NoToken) : u \in Names, pw \in Passwords}
  \cup {AuthHeader("bearer", TRUE, "", "", t) : t \in BearerTokens}

AuthnIdle(variant) ==
  [st |-> "idle", variant |-> variant, now |-> 0, header |-> AuthHeader("none", FALSE, "", "", NoToken),
   a |-> Rejected, mw |-> authMiddleware(Rejected), sessions |-> {}]

InitAuthn ==
  /\ lookup = IdleLookup
  /\ cfg = [routes |-> <<>>, verbose |-> FALSE, target |-> NoTarget, secure |-> FALSE]
  /\ stats = IdleStats /\ reqs = <<>> /\ last = IdleLast
  /\ proc = Running /\ listening = FALSE
  /\ disk = IdleDisk /\ secure = IdleSecure /\ loads = <<>> /\ hs = IdleHs
  /\ ac = IdleAc /\ ev = IdleEv /\ timex = FALSE /\ db = IdleDb /\ fs = IdleFs
  /\ site = IdleSite
  /\ \E v \in {"bin", "spec"} : call = AuthnIdle(v)

authnOthers ==
  <<lookup, cfg, stats, reqs, last, proc, listening, disk, secure, loads, hs, ac, ev, timex,
    db, fs, site>>

\* a request with this Authorization header reaches authMiddleware at time
\* now; the middleware of the second kind is never given a request without
\* a header here
authRequest(header, now) ==
  /\ now >= call.now
  /\ call.variant = "spec" => header.method # "none"
  /\ LET a == IF call.variant = "bin" THEN authenticate(UsersDB, header)
              ELSE authenticateHeader(UsersDB, header, now)
     IN  call' = [call EXCEPT !.st = "done", !.now = now, !.header = header, !.a = a,
                    !.mw = authMiddleware(a),
                    !.sessions = IF a.session # "" THEN @ \cup {a.session} ELSE @]
  /\ UNCHANGED authnOthers

NextAuthn == \E header \in AuthHeaders, now \in 0..MaxNow : authRequest(header, now)
SpecAuthn == InitAuthn /\ [][NextAuthn]_vars

HasCredentials(rec) == rec.hash # Undef \/ rec.credentials # NoCredentials
Signed(token) == verify(token, Secret)

\* C31: on the Bearer path a request is authenticated exactly when the
\* token's signature verifies and the token is not expired; a token with a
\* bad signature fails as invalid and its payload is not the user; a signed
\* token issued lifetime + 1 s ago fails as expired, one issued
\* lifetime - 1 s ago is accepted
C31_Bearer ==
  (call.st = "done" /\ call.variant = "spec" /\ call.header.method = "bearer") =>
    LET t == call.header.token
    IN  /\ call.a.authenticated <=> (Signed(t) /\ ~expired(t, call.now))
        /\ ~Signed(t) => (call.a.error = InvalidToken /\ call.a.user = UserName(""))
        /\ (Signed(t) /\ t.exp = 0 /\ t.iat + Lifetime + 1 = call.now)
             => (~call.a.authenticated /\ call.a.error = ExpiredToken)
        /\ (Signed(t) /\ t.exp = 0 /\ t.iat + Lifetime = call.now + 1)
             => call.a.authenticated
\* a signed token one second before its end is accepted
C31_Witness ==
  /\ call.st = "done" /\ call.variant = "spec" /\ call.header.method = "bearer"
  /\ Signed(call.header.token) /\ call.header.token.exp = 0
  /\ call.header.token.iat + Lifetime = call.now + 1
  /\ call.a.authenticated

\* C32: on the Basic path a name whose record is empty, PENDING or INACTIVE
\* is never authenticated and gets no token and no session, whatever the
\* password or code
NotActive(name) ==
  \/ lookupUser(UsersDB, name) = EmptyUser
  \/ lookupUser(UsersDB, name).status \in {"PENDING", "INACTIVE"}
C32_NotActive ==
  (call.st = "done" /\ call.header.method = "basic" /\ call.header.b64
     /\ NotActive(call.header.user)) =>
    /\ ~call.a.authenticated
    /\ call.a.jwt = NoToken /\ call.a.session = ""
    /\ ~call.mw.sent
\* the PENDING user with the right password is refused by Auth.authenticate
C32_Witness ==
  /\ call.st = "done" /\ call.variant = "bin"
  /\ call.header.method = "basic" /\ call.header.user = "pat" /\ call.header.pw = Good
  /\ call.a.settled = "resolved" /\ ~call.a.authenticated

\* C33: after a successful authentication neither the user of the result
\* nor the payload of the token holds the credentials of the record
C33_NoCredentials ==
  (call.st = "done" /\ call.a.authenticated) =>
    /\ call.a.user.kind = "record" => ~HasCredentials(call.a.user.rec)
    /\ ~HasCredentials(call.a.jwt.payload)
\* alice logs in with her password and gets a token
C33_Witness ==
  /\ call.st = "done" /\ call.variant = "spec"
  /\ call.header.method = "basic" /\ call.header.user = "alice" /\ call.header.pw = Good
  /\ call.a.authenticated /\ call.a.jwt.payload.username = "alice"

\* C34: for a bad password, an unknown user, a malformed or unsupported
\* header and an invalid or expired token, authenticate settles with a
\* result that is not authenticated and has an error, and the request is
\* answered with the 401 or passed on, exactly one of the two
FailureMode(header, now) ==
  \/ header.method = "digest"
  \/ header.method = "basic" /\ (~header.b64 \/ header.pw = Undef)
  \/ header.method = "basic" /\ header.b64 /\ header.pw # Undef
       /\ LET rec == lookupUser(UsersDB, header.user)
          IN  \/ rec = EmptyUser
              \/ /\ rec.status = "ACTIVE"
                 /\ compare(header.pw, rec.credentials.hash) = "false"
                 /\ ~checkCode(header.pw, rec.credentials.code, now)
  \/ header.method = "bearer" /\ (~Signed(header.token) \/ expired(header.token, now))
C34_NeverThrows ==
  (call.st = "done" /\ FailureMode(call.header, call.now)) =>
    /\ call.a.settled = "resolved"
    /\ ~call.a.authenticated
    /\ call.a.error \notin {Undef, ""}
    /\ (call.mw.reply = "401") # call.mw.next

(***************************************************************************)
(* User management: userMiddleware of hbLiteApp.js, POST /user/code and    *)
(* POST /user/change.  db.users maps every name to its record, {} for a    *)
(* name without an account.                                                *)
(***************************************************************************)
MaxBody == 2         \* entries in the body of POST /user/change

\* uDB.defaults('users')
DEFAULTS == [member |-> <<"users">>, status |-> "PENDING"]

\* uDB.modify('changeUser',[{ref, record}],true): the entry becomes the
\* record of ref; the outcome tells whether ref was there
changeUser(users, ref, entry) ==
  [users |-> [users EXCEPT ![ref] = entry],
   outcome |-> [op |-> IF users[ref] = EmptyUser THEN "add" ELSE "change", ref |-> ref,
                code |-> 0]]

\* an activation that does not look at the status
activateMut(users, who) ==
  changeUser(users, who.username, [who EXCEPT !.status = "ACTIVE"]).users

\* if (who.status=='PENDING') { who.status = 'ACTIVE'; uDB.modify(...) }
activate(users, who) ==
  IF who.status = "PENDING"
  THEN changeUser(users, who.username, [who EXCEPT !.status = "ACTIVE"]).users
  ELSE users

\* POST /user/code/<username>/<code>
postCode(users, user, opt, now) ==
  LET who == lookupUser(users, user)
  IN  IF who # EmptyUser /\ checkCode(opt, who.credentials.code, now)
      THEN [users |-> activate(users, who), out |-> "json"]
      ELSE [users |-> users, out |-> "400"]

\* an entry that keeps what the request sent
restoreMut(entry, exists, existing, admin) == entry

\* if (!admin) { entry.member = exists ? existing.member : DEFAULTS.member;
\*               entry.status = exists ? existing.status : DEFAULTS.status; }
restore(entry, exists, existing, admin) ==
  IF admin THEN entry
  ELSE [entry EXCEPT !.member = IF exists THEN existing.member ELSE DEFAULTS.member,
                     !.status = IF exists THEN existing.status ELSE DEFAULTS.status]

\* ({}).mergekeys(DEFAULTS).mergekeys(existing).mergekeys(record), where the
\* record's credentials are {hash: bcrypt of record.password or '', code: {}}
userEntry(existing, record) ==
  [username |-> record.username,
   status |-> IF record.status # Undef THEN record.status
              ELSE IF existing # EmptyUser THEN existing.status ELSE DEFAULTS.status,
   member |-> IF record.member # Undefined THEN record.member
              ELSE IF existing # EmptyUser THEN existing.member ELSE DEFAULTS.member,
   hash |-> existing.hash,
   credentials |-> [hash |-> IF record.password # Undef THEN Hash(record.password) ELSE "",
                    code |-> NoCode]]

\* data.forEach(usr=>{...}) of POST /user/change: s is {users, changes}
RECURSIVE postChange(_, _, _)
postChange(s, caller, data) ==
  IF Len(data) = 0 THEN s
  ELSE
    LET record == data[1]
        existing == lookupUser(s.users, record.username)
        exists == existing # EmptyUser
        entry == restore(userEntry(existing, record), exists, existing, caller.admin)
        done == changeUser(s.users, record.username, entry)
        t == IF record.username = Undef
             THEN [users |-> s.users,
                   changes |-> Append(s.changes, [op |-> "error", ref |-> Undef, code |-> 400])]
             ELSE IF ~exists \/ record.username = caller.username \/ caller.admin
             THEN [users |-> done.users, changes |-> Append(s.changes, done.outcome)]
             ELSE [users |-> s.users,
                   changes |-> Append(s.changes,
                                      [op |-> "error", ref |-> record.username, code |-> 401])]
    IN  postChange(t, caller, Tail(data))

(***************************************************************************)
(* Specification SpecUser: one request to the user middleware              *)
(***************************************************************************)
UsersAll == [n \in Names |-> lookupUser(UsersDB, n)]
UserCallers ==
  {[username |-> "", admin |-> FALSE], [username |-> "alice", admin |-> FALSE],
   [username |-> "pat", admin |-> FALSE], [username |-> "root", admin |-> TRUE]}
ChangeRecords ==
  {[username |-> n, member |-> m, status |-> s, password |-> p] :
     n \in {"alice", "pat", "nobody", Undef}, m \in {Undefined, <<"admin">>},
     s \in {Undef, "ACTIVE"}, p \in {Undef}}
  \cup {[username |-> "alice", member |-> Undefined, status |-> Undef, password |-> "new"]}
RECURSIVE Bodies(_)
Bodies(n) ==
  IF n = 0 THEN {<<>>}
  ELSE Bodies(n - 1) \cup {Append(b, r) : b \in {c \in Bodies(n - 1) : Len(c) = n - 1},
                                          r \in ChangeRecords}
UserIdle ==
  [st |-> "idle", op |-> "none", before |-> UsersAll, user |-> "", opt |-> Undef, now |-> 0,
   caller |-> [username |-> "", admin |-> FALSE], data |-> <<>>, changes |-> <<>>,
   out |-> "none"]

InitUser ==
  /\ lookup = IdleLookup
  /\ cfg = [routes |-> <<>>, verbose |-> FALSE, target |-> NoTarget, secure |-> FALSE]
  /\ stats = IdleStats /\ reqs = <<>> /\ last = IdleLast
  /\ proc = Running /\ listening = FALSE
  /\ disk = IdleDisk /\ secure = IdleSecure /\ loads = <<>> /\ hs = IdleHs
  /\ ac = IdleAc /\ ev = IdleEv /\ timex = FALSE /\ fs = IdleFs
  /\ site = IdleSite
  /\ db = [users |-> UsersAll]
  /\ call = UserIdle

userOthers ==
  <<lookup, cfg, stats, reqs, last, proc, listening, disk, secure, loads, hs, ac, ev, timex,
    fs, site>>

\* POST /user/code/<user>/<opt> at time now
postCodeRequest(user, opt, now) ==
  /\ call.st = "idle"
  /\ LET r == postCode(db.users, user, opt, now)
     IN  /\ db' = [db EXCEPT !.users = r.users]
         /\ call' = [call EXCEPT !.st = "done", !.op = "code", !.user = user, !.opt = opt,
                                 !.now = now, !.out = r.out]
  /\ UNCHANGED userOthers

\* POST /user/change with the body data
postChangeRequest(caller, data) ==
  /\ call.st = "idle"
  /\ Len(data) > 0
  /\ LET r == postChange([users |-> db.users, changes |-> <<>>], caller, data)
     IN  /\ db' = [db EXCEPT !.users = r.users]
         /\ call' = [call EXCEPT !.st = "done", !.op = "change", !.caller = caller,
                                 !.data = data, !.changes = r.changes, !.out = "json"]
  /\ UNCHANGED userOthers

NextUser ==
  \/ \E user \in Names, opt \in {Code1, "0000", Undef}, now \in 0..MaxNow :
       postCodeRequest(user, opt, now)
  \/ \E caller \in UserCallers, data \in Bodies(MaxBody) : postChangeRequest(caller, data)
SpecUser == InitUser /\ [][NextUser]_vars

\* C35: POST /user/code makes a user ACTIVE only from PENDING and only with
\* a code that passes checkCode against the stored challenge; a failed or
\* expired code changes nothing, and an INACTIVE or unknown user stays as
\* it is
C35_Activation ==
  (call.st = "done" /\ call.op = "code") =>
    LET was == call.before[call.user]
        passes == checkCode(call.opt, was.credentials.code, call.now)
    IN  /\ \A n \in Names \ {call.user} : db.users[n] = call.before[n]
        /\ db.users[call.user] # was =>
             /\ was.status = "PENDING" /\ passes
             /\ db.users[call.user] = [was EXCEPT !.status = "ACTIVE"]
        /\ ~passes => (db.users = call.before /\ call.out = "400")
        /\ (was = EmptyUser \/ was.status = "INACTIVE") => db.users = call.before
\* the INACTIVE user sends its valid code and stays INACTIVE
C35_Witness ==
  /\ call.st = "done" /\ call.op = "code" /\ call.user = "ian"
  /\ checkCode(call.opt, call.before["ian"].credentials.code, call.now)
  /\ call.out = "json"
  /\ db.users["ian"].status = "INACTIVE"

\* C36: POST /user/change by a caller who is not admin or manager leaves
\* member and status of every existing account as stored, gives a new
\* account the default member and status, and answers a change to another
\* existing account with the 401 outcome and changes nothing of it
C36_MemberStatus ==
  (call.st = "done" /\ call.op = "change" /\ ~call.caller.admin) =>
    /\ \A n \in Names :
         IF call.before[n] # EmptyUser
         THEN /\ db.users[n].member = call.before[n].member
              /\ db.users[n].status = call.before[n].status
              /\ n # call.caller.username => db.users[n] = call.before[n]
         ELSE db.users[n] # EmptyUser =>
                /\ db.users[n].member = DEFAULTS.member
                /\ db.users[n].status = DEFAULTS.status
    /\ \A i \in 1..Len(call.data) :
         (/\ call.data[i].username # Undef
          /\ call.before[call.data[i].username] # EmptyUser
          /\ call.data[i].username # call.caller.username)
           => (call.changes[i].op = "error" /\ call.changes[i].code = 401)
\* alice asks for the admin group and ACTIVE for herself and for pat
C36_Witness ==
  /\ call.st = "done" /\ call.op = "change" /\ call.caller.username = "alice"
  /\ ~call.caller.admin /\ Len(call.data) = 2
  /\ call.data[1].username = "alice" /\ call.data[1].member = <<"admin">>
  /\ call.data[2].username = "pat" /\ call.data[2].status = "ACTIVE"
  /\ call.changes[1].op = "change" /\ call.changes[2].op = "error"

(***************************************************************************)
(* Specification SpecStoreReload: a writable store on A.json that is       *)
(* modified and reloaded (the reload action calls load()) while its timer  *)
(* and its writes run.  A mutation is made only while its timer can still  *)
(* expire within the clock's range.                                        *)
(***************************************************************************)
InitStoreReload ==
  /\ lookup = IdleLookup
  /\ cfg = [routes |-> <<>>, verbose |-> FALSE, target |-> NoTarget, secure |-> FALSE]
  /\ stats = IdleStats /\ reqs = <<>> /\ last = IdleLast
  /\ proc = Running /\ listening = FALSE
  /\ disk = IdleDisk /\ secure = IdleSecure /\ loads = <<>> /\ hs = IdleHs
  /\ ac = IdleAc /\ site = IdleSite
  /\ \E d \in {0, 1} :
       /\ db = Loaded(jxjDB(Cfg(FileA, "unset", d)))
       /\ call = PersistIdle(jxjDB(Cfg(FileA, "unset", d)))
  /\ timex = 0
  /\ fs = FilesWith(Json(TreeOf(DocA, 0, NoCfg)))
  /\ ev = StartEv

NextStoreReload ==
  \/ \E n \in 1..2 : ev.now + db.delay <= MaxTime /\ modifyAccepted(n)
  \/ timeout
  \/ writeFileDone
  \/ tick
  \/ loadCall
  \/ loadResume
SpecStoreReload == InitStoreReload /\ [][NextStoreReload]_vars
\* timers expire, time passes, and reads and writes of files complete
FairStoreReload ==
  /\ SpecStoreReload
  /\ WF_vars(timeout) /\ WF_vars(tick) /\ WF_vars(writeFileDone) /\ WF_vars(loadResume)

\* the k-th mutation is in a tree that a save has written or is writing
SavedWith(k) ==
  \/ \E i \in 1..Len(ev.writes) : ev.writes[i].data.edits >= k
  \/ fs[FileA].t = "json" /\ fs[FileA].tree.edits >= k

\* C38: after a mutation, unless another mutation follows, a save runs and
\* the tree it writes contains the mutation, also when a load() of the
\* store is in progress or completes in between
C38_EventuallySaved ==
  \A k \in 1..MaxMuts : <>[](Len(call.muts) = k) => <>SavedWith(k)

(***************************************************************************)
(* Site construction and start-up (hbLite.js, hbLiteApp.js)                *)
(*                                                                         *)
(* The server script creates the server level stores and calls load() on   *)
(* each without waiting, then constructs the sites in the order of the     *)
(* configuration.  The script runs to its end before a load completes or   *)
(* a request is handled.  db.objs holds the one object the script names    *)
(* db, which server.db and every site's this.db refer to; db.state is      *)
(* what each store holds: "none" before it is made, "pending" while        *)
(* this.db is undefined, "loaded" after load() has parsed the file.        *)
(***************************************************************************)
DbNames == {"site", "users"}
SiteTags == <<"A", "B">>
Owners == {"server", "A", "B"}
Store(owner, d) == [owner |-> owner, name |-> d]
NoStore == Store("none", "none")
SiteStores == {Store(o, d) : o \in Owners, d \in DbNames}

\* for (let d in cfg.databases) { db[d] = new jxjDB(...); db[d].load() }
serverDatabases(databases) ==
  [objs |-> [server |-> [d \in DbNames |->
                           IF d \in databases THEN Store("server", d) ELSE NoStore]],
   state |-> [st \in SiteStores |->
                IF st.owner = "server" /\ st.name \in databases THEN "pending"
                ELSE "none"]]

\* this.db[d] of a site: this.db is a reference to an object of db.objs
resolveDb(s, d) ==
  IF site.ref[s] = "none" THEN NoStore ELSE db.objs[site.ref[s]][d]

\* Site: this.db = context.server.db, then this.db[d] = new jxjDB(...) and
\* load() for the databases of the site's configuration
siteDatabases(s) ==
  [objs |-> [db.objs EXCEPT !.server =
               [d \in DbNames |-> IF d \in site.cfgs[s] THEN Store(s, d) ELSE @[d]]],
   state |-> [st \in SiteStores |->
                IF st.owner = s /\ st.name \in site.cfgs[s] THEN "pending"
                ELSE db.state[st]]]

\* jxjDB.prototype.lookup on a store: this.db is undefined until load() has
\* parsed the file, and the look-up of any name then yields {}
lookupIn(st) == IF db.state[st] = "loaded" THEN "found" ELSE "unknown"

SiteIdle ==
  [cfgs |-> [s \in {"A", "B"} |-> {}], built |-> [s \in {"A", "B"} |-> FALSE],
   ref |-> [s \in {"A", "B"} |-> "none"],
   data |-> [s \in {"A", "B"} |-> NoStore], users |-> [s \in {"A", "B"} |-> NoStore]]
NoRequest == [st |-> "idle", site |-> "none", plane |-> "none", store |-> NoStore,
              state |-> "none", out |-> "none"]

(***************************************************************************)
(* Specification SpecSites: start-up of a server with two secure sites     *)
(* that use the data handler, and the requests they handle                 *)
(***************************************************************************)
InitSites ==
  /\ lookup = IdleLookup
  /\ cfg = [routes |-> <<>>, verbose |-> FALSE, target |-> NoTarget, secure |-> FALSE]
  /\ stats = IdleStats /\ reqs = <<>> /\ last = IdleLast
  /\ proc = Running /\ listening = FALSE
  /\ disk = IdleDisk /\ secure = IdleSecure /\ loads = <<>> /\ hs = IdleHs
  /\ ac = IdleAc /\ timex = FALSE /\ fs = IdleFs /\ ev = IdleEv
  /\ \E databases \in SUBSET DbNames : db = serverDatabases(databases)
  /\ \E a \in SUBSET DbNames, b \in SUBSET DbNames :
       site = [SiteIdle EXCEPT !.cfgs = [s \in {"A", "B"} |-> IF s = "A" THEN a ELSE b]]
  /\ call = NoRequest
sitesOthers ==
  <<lookup, cfg, stats, reqs, last, listening, disk, secure, loads, hs, ac, timex, fs, ev>>

\* new App(context): the constructor up to this.build(), which mounts the
\* user middleware on this.db['users'] and the data handler on site.db.site
\* and listens; a missing users or site database is fatal
constructSite(i) ==
  LET s == SiteTags[i]
      made == siteDatabases(s)
  IN  /\ proc = Running /\ ~site.built[s]
      /\ \A j \in 1..(i - 1) : site.built[SiteTags[j]]
      /\ db' = made
      /\ IF \E d \in DbNames : made.objs.server[d] = NoStore
         THEN /\ proc' = fatal(proc)
              /\ site' = [site EXCEPT !.ref[s] = "server"]
         ELSE /\ proc' = proc
              /\ site' = [site EXCEPT !.ref[s] = "server", !.built[s] = TRUE,
                                      !.users[s] = made.objs.server["users"],
                                      !.data[s] = made.objs.server["site"]]
      /\ UNCHANGED <<call>> /\ UNCHANGED sitesOthers

SitesUp == \A i \in 1..Len(SiteTags) : site.built[SiteTags[i]]

\* load() of a store completes: this.db = JSON.parse(source)
loadResolves(st) ==
  /\ proc = Running /\ SitesUp /\ db.state[st] = "pending"
  /\ db' = [db EXCEPT !.state[st] = "loaded"]
  /\ UNCHANGED <<site, call, proc>> /\ UNCHANGED sitesOthers

\* load() of a store fails: .catch(e => scribe.fatal(...))
loadRejects(st) ==
  /\ proc = Running /\ SitesUp /\ db.state[st] = "pending"
  /\ proc' = fatal(proc)
  /\ UNCHANGED <<site, call, db>> /\ UNCHANGED sitesOthers

\* a data or user request handled by a site: the recipe, or the user, is
\* looked up in the store the middleware was mounted on
siteRequest(s, plane) ==
  /\ proc = Running /\ SitesUp
  /\ LET st == IF plane = "data" THEN site.data[s] ELSE site.users[s]
     IN  call' = [st |-> "done", site |-> s, plane |-> plane, store |-> st,
                  state |-> db.state[st], out |-> lookupIn(st)]
  /\ UNCHANGED <<site, db, proc>> /\ UNCHANGED sitesOthers

NextSites ==
  \/ \E i \in 1..Len(SiteTags) : constructSite(i)
  \/ \E st \in SiteStores : loadResolves(st)
  \/ \E st \in SiteStores : loadRejects(st)
  \/ \E s \in {"A", "B"}, plane \in {"data", "user"} : siteRequest(s, plane)
SpecSites == InitSites /\ [][NextSites]_vars

\* C39: a request is handled only on a store whose load() has completed,
\* and so is never answered as naming an unknown recipe or user because
\* the load is pending
C39_LoadedBeforeServed ==
  call.st = "done" => (call.state = "loaded" /\ call.out = "found")

\* what the configuration declares for a site: its own database of that
\* name, or else the server's
Declared(s, d) ==
  IF d \in site.cfgs[s] THEN Store(s, d)
  ELSE IF db.state[Store("server", d)] # "none" THEN Store("server", d)
  ELSE NoStore

\* C40: a database of a site's configuration replaces the server's of the
\* same name for that site only: every constructed site resolves a name to
\* its own database or else the server's, and the server level keeps
\* resolving every name to the server's database
C40_SiteOnly ==
  /\ \A s \in {"A", "B"}, d \in DbNames :
       site.ref[s] # "none" => resolveDb(s, d) = Declared(s, d)
  /\ \A d \in DbNames :
       site.ref["A"] # "none" =>
         db.objs.server[d] = (IF db.state[Store("server", d)] # "none"
                              THEN Store("server", d) ELSE NoStore)

====
